---- MODULE Spec2Model ----
(***************************************************************************)
(* CollabBoard: the board agent (functions/src/agent.ts), its auto-fit     *)
(* pass, and the client side of the object store (hooks/useFirestore.ts,   *)
(* Canvas.tsx, BoardView.tsx, Connector.tsx, BoardPreview.tsx).            *)
(*                                                                         *)
(* Five specifications share the module:                                   *)
(*   SpecAgent    one runBoardAgent invocation: turn loop, plan, commit    *)
(*   SpecTools    every tool of processToolCall, then the commit           *)
(*   SpecFit      fitFramesToContent on plans that place frames            *)
(*   SpecSync     two clients on useFirestore: deliveries, refreshes,      *)
(*                drags and deletes                                        *)
(*   SpecCascade  the delete handlers, connector rendering, the preview    *)
(***************************************************************************)
EXTENDS Integers, Sequences, FiniteSets, TLC

VARIABLES
    \* ---- runBoardAgent (agent.ts:353-563) ----
    pc,             \* position of the invocation
    turn,           \* loop variable of the turn loop
    boardState,     \* req.boardState, the snapshot sent with the request
    allActions,     \* ActionTaken[]
    pendingWrites,  \* PendingWrite[]
    createdIds,     \* Set<string> of ids created in this run
    agentSummary,   \* parts appended to the summary string
    nextId,         \* how many ids generateId has handed out
    llmCalls,       \* number of anthropic.messages.create calls made
    turnElapsed,    \* duration of the last awaited LLM call (ms)
    timedOut,       \* the plan as it was when a turn timed out, <<>> if none did
    nudges,         \* "you must call tools" messages pushed to the conversation
    lastStop,       \* stop_reason of the last response, "" before the first
    toolLog,        \* per processed tool_use block: K at call time, result, write
    batches,        \* batches committed by this invocation
    agentStore,     \* boards/{boardId}/objects as the server holds it
    agentClock,     \* server commit time
    fitOut,         \* outcome of the last fitFramesToContent pass
    \* ---- browser clients and the objects collection ----
    store,          \* boards/{boardId}/objects on the server
    clock,          \* server commit time
    inflight,       \* writes issued by clients, not yet committed
    objects,        \* per client: the objects state of useFirestore
    shown,          \* per client: commit time of the state its list was built from
    missed,         \* per client: commits a resumed subscription had not seen
    refreshBuf,     \* per client: result of getDocsFromServer not yet applied
    canvasConn,     \* per client: connectors the canvas draws
    preview,        \* BoardPreview: its objects state, <<>> while loading
    previewConn,    \* BoardPreview: connectors it draws
    updateLog,      \* updateDoc calls the server has processed, in commit order
    lastDelete,     \* the last UI delete: selection, list and writes issued
    issued,         \* number of write operations clients have started
    \* ---- usePresence sessions and the presence collection ----
    nowMs,          \* wall clock, ms (Date.now() and the server's time)
    presence,       \* boards/{boardId}/presence on the server, per user id
    sess,           \* per session: "new", "open", "closed", "dead"
    kaDue,          \* per session: when its keepalive interval fires next
    lastSent,       \* per session: lastSentRef.current
    lastMove,       \* per session: the last updateCursor call and its outcome
    allUsers,       \* per session: the allUsers state of usePresence
    pending,        \* per session: a presence snapshot is on its way to it
    \* ---- two runBoardAgent invocations on one board ----
    runs,           \* per invocation: its position and its locals
    \* ---- the boardAgent HTTP function ----
    request,        \* the HTTP request being handled, <<>> when there is none
    response,       \* what the function has sent, <<>> while nothing is sent
    reqUserId,      \* req.userId of the runBoardAgent call
    elapsedMs,      \* time since the function was invoked
    lateSeen,       \* the model call that lost the race has settled since
    messages        \* MessageParam[] of callLLM, where a specification follows it

agentVars == <<pc, turn, boardState, allActions, pendingWrites, createdIds,
               agentSummary, nextId, llmCalls, turnElapsed, timedOut, nudges,
               lastStop, toolLog, batches, agentStore, agentClock, fitOut>>
boardVars == <<store, clock, inflight, objects, shown, missed, refreshBuf,
               canvasConn,
               preview, previewConn, updateLog, lastDelete, issued>>
presenceVars == <<nowMs, presence, sess, kaDue, lastSent, lastMove,
                  allUsers, pending>>
runtimeVars == <<elapsedMs, lateSeen, messages>>
httpVars == <<request, response, reqUserId, runtimeVars>>
vars == <<agentVars, boardVars, presenceVars, runs, httpVars>>

\* no HTTP request in the picture: runBoardAgent is called for user u1
RuntimeIdle == elapsedMs = 0 /\ lateSeen = FALSE /\ messages = <<>>
HttpIdle ==
    request = <<>> /\ response = <<>> /\ reqUserId = "u1" /\ RuntimeIdle

\* ------------------------------------------------------------------------
\* Generic helpers
\* ------------------------------------------------------------------------
Min2(a, b) == IF a <= b THEN a ELSE b
Max2(a, b) == IF a >= b THEN a ELSE b
Range(s) == {s[i] : i \in 1..Len(s)}

\* JS `obj.f ?? dflt` on an object whose absent fields are undefined
Nullish(obj, f, dflt) == IF f \in DOMAIN obj THEN obj[f] ELSE dflt

\* Firestore set(..., {merge:true}) / update field overlay
Overlay(doc, data) ==
    [f \in (DOMAIN doc) \cup (DOMAIN data) |->
        IF f \in DOMAIN data THEN data[f] ELSE doc[f]]

\* ------------------------------------------------------------------------
\* processToolCall (agent.ts:600-936)
\* ------------------------------------------------------------------------
BoardId == "b1"
\* req.userId (agent.ts:441)
UserId == reqUserId
\* admin.firestore.FieldValue.serverTimestamp(): resolved when the write commits
ServerTimestamp == "serverTimestamp"

BasePath == <<"boards", BoardId, "objects">>
PathOf(id) == Append(BasePath, id)
\* w.path.split("/").pop()
WriteId(w) == w.path[Len(w.path)]

\* generateId(): 20 random characters; the n-th call yields the n-th fresh id
GenIds == <<"n1", "n2", "n3", "n4", "n5", "n6">>
generateId(n) == GenIds[n + 1]

isKnownIdAlways(bs, created, id) == TRUE
isKnownId(bs, created, id) ==
    (\E i \in 1..Len(bs) : bs[i].id = id) \/ id \in created

Stamp(userId) == [lastEditedBy |-> userId, updatedAt |-> ServerTimestamp]
\* a data field copied from the tool input; undefined values are not written
\* (db.settings({ignoreUndefinedProperties: true}))
Opt(dst, input, src) ==
    IF src \in DOMAIN input THEN [f \in {dst} |-> input[src]] ELSE <<>>

ErrorResultWithObjectId(tool, input, id) ==
    [action |-> [tool |-> tool, input |-> input, objectId |-> id],
     resultMessage |-> <<"Error", id, "not found">>]
ErrorResult(tool, input, id) ==
    [action |-> [tool |-> tool, input |-> input],
     resultMessage |-> <<"Error", id, "not found">>]

UpdateResult(tool, input, userId, bs, created, id, data, msg) ==
    IF ~isKnownId(bs, created, id)
    THEN ErrorResult(tool, input, id)
    ELSE [action |-> [tool |-> tool, input |-> input],
          resultMessage |-> <<msg, id>>,
          write |-> [type |-> "update", path |-> PathOf(id),
                     data |-> Overlay(data, Stamp(userId))]]

CreateResult(tool, input, id, data, msg) ==
    [action |-> [tool |-> tool, input |-> input, objectId |-> id],
     resultMessage |-> <<msg, id>>,
     write |-> [type |-> "set", path |-> PathOf(id), data |-> data]]

\* updateConnectorStyle: style merged with the snapshot's style of the object
ExistingStyle(bs, oid) ==
    LET hits == {i \in 1..Len(bs) : bs[i].id = oid}
    IN  IF hits = {} THEN <<>>
        ELSE LET o == bs[CHOOSE i \in hits : \A j \in hits : i <= j]
             IN  Nullish(o, "style", <<>>)
NewStyle(input, existingStyle) ==
    [lineStyle |-> Nullish(input, "lineStyle",
                       Nullish(existingStyle, "lineStyle", "solid")),
     arrowHead |-> IF "arrowHead" \in DOMAIN input THEN input.arrowHead
                   ELSE Nullish(existingStyle, "arrowHead", TRUE)]

ShapeExtra(input) ==
    Overlay(
      IF Nullish(input, "type", "") = "line"
      THEN [points |-> <<0, 0, input.width, input.height>>] ELSE <<>>,
      IF Nullish(input, "type", "") = "circle"
      THEN [radius |-> Min2(input.width, input.height) \div 2] ELSE <<>>)

\* id is the value generateId() returns if this call creates an object
processToolCall(toolName, input, userId, bs, created, id) ==
    CASE toolName = "createStickyNote" ->
           CreateResult(toolName, input, id,
             [type |-> "sticky", x |-> Nullish(input, "x", 100),
              y |-> Nullish(input, "y", 100), width |-> 200, height |-> 200,
              rotation |-> 0, text |-> Nullish(input, "text", ""),
              color |-> Nullish(input, "color", "#fef08a"), zIndex |-> 0,
              lastEditedBy |-> userId, updatedAt |-> ServerTimestamp],
             "Created sticky note")
      [] toolName = "createText" ->
           CreateResult(toolName, input, id,
             [type |-> "text", x |-> Nullish(input, "x", 100),
              y |-> Nullish(input, "y", 100), width |-> 200, height |-> 30,
              rotation |-> 0, text |-> Nullish(input, "text", ""),
              fontSize |-> Nullish(input, "fontSize", 16),
              color |-> Nullish(input, "color", "#374151"), zIndex |-> 0,
              lastEditedBy |-> userId, updatedAt |-> ServerTimestamp],
             "Created text element")
      [] toolName = "createShape" ->
           CreateResult(toolName, input, id,
             Overlay(
               [type |-> Nullish(input, "type", "rectangle"),
                x |-> Nullish(input, "x", 100), y |-> Nullish(input, "y", 100),
                width |-> Nullish(input, "width", 200),
                height |-> Nullish(input, "height", 200),
                rotation |-> 0, text |-> Nullish(input, "text", ""),
                color |-> Nullish(input, "color", "#93c5fd"), zIndex |-> 0,
                lastEditedBy |-> userId, updatedAt |-> ServerTimestamp],
               ShapeExtra(input)),
             "Created shape")
      [] toolName = "createFrame" ->
           CreateResult(toolName, input, id,
             [type |-> "frame", x |-> Nullish(input, "x", 100),
              y |-> Nullish(input, "y", 100),
              width |-> Nullish(input, "width", 400),
              height |-> Nullish(input, "height", 400),
              rotation |-> 0, text |-> Nullish(input, "title", "Frame"),
              color |-> "#e5e7eb", zIndex |-> -1,
              lastEditedBy |-> userId, updatedAt |-> ServerTimestamp],
             "Created frame")
      [] toolName = "createConnector" ->
           IF ~isKnownId(bs, created, input.fromId)
           THEN ErrorResult(toolName, input, input.fromId)
           ELSE IF ~isKnownId(bs, created, input.toId)
           THEN ErrorResult(toolName, input, input.toId)
           ELSE CreateResult(toolName, input, id,
             [type |-> "connector", x |-> 0, y |-> 0, width |-> 0,
              height |-> 0, rotation |-> 0, color |-> "#374151",
              connectedFrom |-> input.fromId, connectedTo |-> input.toId,
              style |-> [lineStyle |-> Nullish(input, "style", "solid"),
                         arrowHead |-> TRUE],
              zIndex |-> 0,
              lastEditedBy |-> userId, updatedAt |-> ServerTimestamp],
             "Created connector")
      [] toolName = "moveObject" ->
           UpdateResult(toolName, input, userId, bs, created, input.objectId,
             Overlay(Opt("x", input, "x"), Opt("y", input, "y")),
             "Moved object")
      [] toolName = "resizeObject" ->
           UpdateResult(toolName, input, userId, bs, created, input.objectId,
             Overlay(Opt("width", input, "width"),
                     Opt("height", input, "height")), "Resized object")
      [] toolName = "updateText" ->
           UpdateResult(toolName, input, userId, bs, created, input.objectId,
             Opt("text", input, "newText"), "Updated text of")
      [] toolName = "changeColor" ->
           UpdateResult(toolName, input, userId, bs, created, input.objectId,
             Opt("color", input, "color"), "Changed color of")
      [] toolName = "updateConnectorStyle" ->
           UpdateResult(toolName, input, userId, bs, created, input.objectId,
             [style |-> NewStyle(input,
                          ExistingStyle(bs, input.objectId))],
             "Updated connector")
      [] toolName = "deleteObject" ->
           IF ~isKnownId(bs, created, input.objectId)
           THEN ErrorResult(toolName, input, input.objectId)
           ELSE [action |-> [tool |-> toolName, input |-> input],
                 resultMessage |-> <<"Deleted object", input.objectId>>,
                 write |-> [type |-> "delete",
                            path |-> PathOf(input.objectId)]]
      [] toolName = "getBoardState" ->
           [action |-> [tool |-> toolName, input |-> input],
            resultMessage |-> <<"JSON", "boardState">>]
      [] OTHER ->
           [action |-> [tool |-> toolName, input |-> input],
            resultMessage |-> <<"Unknown tool", toolName>>]

\* ------------------------------------------------------------------------
\* fitFramesToContent (agent.ts:952-1147)
\* ------------------------------------------------------------------------
PADDING_SIDE == 30
PADDING_TOP == 70
PADDING_BOTTOM == 30

\* objMap is a JS Map: entries in insertion order, one per id.  An entry is
\* an ObjInfo with its key; radius is <<>> when undefined, <<r>> otherwise.
MapHas(m, id) == \E i \in 1..Len(m) : m[i].id = id
MapGet(m, id) == m[CHOOSE i \in 1..Len(m) : m[i].id = id]
MapSet(m, e) ==
    IF MapHas(m, e.id)
    THEN [i \in 1..Len(m) |-> IF m[i].id = e.id THEN e ELSE m[i]]
    ELSE Append(m, e)
MapDelete(m, id) == SelectSeq(m, LAMBDA e : e.id # id)

ExistingInfo(obj) ==
    [id |-> obj.id, type |-> obj.type, x |-> obj.x, y |-> obj.y,
     width |-> obj.width, height |-> obj.height,
     radius |-> IF "radius" \in DOMAIN obj THEN <<obj.radius>> ELSE <<>>]

\* one iteration of `for (const w of pendingWrites)` (agent.ts:967-984)
MergeWrite(m, w) ==
    LET id == WriteId(w)
        has == MapHas(m, id)
        d == Nullish(w, "data", <<>>)
    IN  IF w.type = "delete" THEN MapDelete(m, id)
        ELSE MapSet(m,
               [id |-> id,
                type |-> Nullish(d, "type", IF has THEN MapGet(m, id).type ELSE ""),
                x |-> Nullish(d, "x", IF has THEN MapGet(m, id).x ELSE 0),
                y |-> Nullish(d, "y", IF has THEN MapGet(m, id).y ELSE 0),
                width |-> Nullish(d, "width",
                                  IF has THEN MapGet(m, id).width ELSE 0),
                height |-> Nullish(d, "height",
                                   IF has THEN MapGet(m, id).height ELSE 0),
                radius |-> IF "radius" \in DOMAIN d THEN <<d.radius>>
                           ELSE IF has THEN MapGet(m, id).radius ELSE <<>>])

RECURSIVE MergeWrites(_, _, _)
MergeWrites(m, writes, i) ==
    IF i > Len(writes) THEN m
    ELSE MergeWrites(MergeWrite(m, writes[i]), writes, i + 1)

BuildObjMap(existingState, writes) ==
    MergeWrites([i \in 1..Len(existingState) |-> ExistingInfo(existingState[i])],
                writes, 1)

FrameEntries(m) == SelectSeq(m, LAMBDA e : e.type = "frame")
PotentialChildren(m) == SelectSeq(m, LAMBDA e : e.type # "connector")

\* circles are positioned by their centre
getBBox(obj) ==
    IF obj.type = "circle"
    THEN LET r == IF obj.radius # <<>> THEN obj.radius[1]
                  ELSE obj.width \div 2
         IN  [left |-> obj.x - r, top |-> obj.y - r,
              right |-> obj.x + r, bottom |-> obj.y + r]
    ELSE [left |-> obj.x, top |-> obj.y,
          right |-> obj.x + obj.width, bottom |-> obj.y + obj.height]

Area(f) == f.width * f.height

\* Phase 1 condition: the frame's rectangle holds the child's top-left
ContainsTopLeft(frame, cb) ==
    /\ cb.left >= frame.x
    /\ cb.left < frame.x + frame.width
    /\ cb.top >= frame.y
    /\ cb.top < frame.y + frame.height

\* inner loop of Phase 1: best is <<>> (bestArea = Infinity) or <<frame>>
RECURSIVE Phase1Scan(_, _, _, _)
Phase1Scan(child, frames, i, best) ==
    IF i > Len(frames) THEN best
    ELSE LET frame == frames[i]
             hit == /\ frame.id # child.id
                    /\ ContainsTopLeft(frame, getBBox(child))
                    /\ (best = <<>> \/ Area(frame) < Area(best[1]))
         IN  Phase1Scan(child, frames, i + 1, IF hit THEN <<frame>> ELSE best)

Phase1Frame(child, frames) == Phase1Scan(child, frames, 1, <<>>)

GapX(frame, cb) ==
    Max2(0, Max2(frame.x - cb.right, cb.left - (frame.x + frame.width)))
GapY(frame, cb) ==
    Max2(0, Max2(frame.y - cb.bottom, cb.top - (frame.y + frame.height)))

\* inner loop of Phase 2: best is <<>> (bestDist = Infinity) or <<frame, dist>>
RECURSIVE Phase2Scan(_, _, _, _)
Phase2Scan(child, frames, i, best) ==
    IF i > Len(frames) THEN best
    ELSE LET frame == frames[i]
             cb == getBBox(child)
             gapX == GapX(frame, cb)
             gapY == GapY(frame, cb)
             skip == gapX > cb.right - cb.left \/ gapY > cb.bottom - cb.top
             dist == gapX + gapY
             hit == ~skip /\ (best = <<>> \/ dist < best[2])
         IN  Phase2Scan(child, frames, i + 1,
                        IF hit THEN <<frame, dist>> ELSE best)

Phase2Frame(child, frames) == Phase2Scan(child, frames, 1, <<>>)

\* the frame (<<>> or <<id>>) a potential child ends up assigned to
AssignedFrameAnyType(child, frames) ==
    LET p1 == Phase1Frame(child, frames)
    IN  IF p1 # <<>> THEN <<p1[1].id>>
        ELSE LET p2 == Phase2Frame(child, frames)
             IN  IF p2 # <<>> THEN <<p2[1].id>> ELSE <<>>
AssignedFrame(child, frames) ==
    LET p1 == Phase1Frame(child, frames)
    IN  IF p1 # <<>> THEN <<p1[1].id>>
        ELSE IF child.type = "frame" THEN <<>>
        ELSE LET p2 == Phase2Frame(child, frames)
             IN  IF p2 # <<>> THEN <<p2[1].id>> ELSE <<>>

\* frameChildrenMap: frame id -> ids of the children pushed to it
FrameChildren(m) ==
    LET frames == FrameEntries(m)
        kids == PotentialChildren(m)
    IN  [fid \in {frames[i].id : i \in 1..Len(frames)} |->
           {kids[j].id : j \in {k \in 1..Len(kids) :
                                  AssignedFrame(kids[k], frames) = <<fid>>}}]

\* [...frames].sort((a, b) => area(a) - area(b)): stable, ascending
RECURSIVE InsertByArea(_, _)
InsertByArea(sorted, f) ==
    IF sorted = <<>> THEN <<f>>
    ELSE IF Area(sorted[Len(sorted)]) <= Area(f) THEN Append(sorted, f)
    ELSE Append(InsertByArea(SubSeq(sorted, 1, Len(sorted) - 1), f),
                sorted[Len(sorted)])
RECURSIVE SortFrames(_, _)
SortFrames(frames, n) ==
    IF n = 0 THEN <<>> ELSE InsertByArea(SortFrames(frames, n - 1), frames[n])

SetMin(S) == CHOOSE a \in S : \A b \in S : a <= b
SetMax(S) == CHOOSE a \in S : \A b \in S : a >= b

\* writeMap.get(id): the last non-delete write to id, 0 if there is none
LastWriteIdx(writes, id) ==
    LET hits == {i \in 1..Len(writes) :
                   writes[i].type # "delete" /\ WriteId(writes[i]) = id}
    IN  IF hits = {} THEN 0 ELSE SetMax(hits)

\* the rectangle a frame gets for the current bounding boxes of its children
NewRectRequiredOnly(frame, boxes) ==
    LET requiredX == SetMin({b.left : b \in boxes}) - PADDING_SIDE
        requiredY == SetMin({b.top : b \in boxes}) - PADDING_TOP
        requiredRight == SetMax({b.right : b \in boxes}) + PADDING_SIDE
        requiredBottom == SetMax({b.bottom : b \in boxes}) + PADDING_BOTTOM
    IN  [x |-> requiredX, y |-> requiredY,
         width |-> requiredRight - requiredX,
         height |-> requiredBottom - requiredY]
NewRect(frame, boxes) ==
    LET requiredX == SetMin({b.left : b \in boxes}) - PADDING_SIDE
        requiredY == SetMin({b.top : b \in boxes}) - PADDING_TOP
        requiredRight == SetMax({b.right : b \in boxes}) + PADDING_SIDE
        requiredBottom == SetMax({b.bottom : b \in boxes}) + PADDING_BOTTOM
        newX == Min2(frame.x, requiredX)
        newY == Min2(frame.y, requiredY)
    IN  [x |-> newX, y |-> newY,
         width |-> Max2(frame.x + frame.width, requiredRight) - newX,
         height |-> Max2(frame.y + frame.height, requiredBottom) - newY]

\* the frame's write in the plan after the frame got rectangle r
WritesWithRectReplacingData(writes, id, r) ==
    LET idx == LastWriteIdx(writes, id)
    IN  IF idx # 0
        THEN [writes EXCEPT ![idx].data = r]
        ELSE Append(writes, [type |-> "update", path |-> PathOf(id), data |-> r])
WritesWithRect(writes, id, r) ==
    LET idx == LastWriteIdx(writes, id)
    IN  IF idx # 0
        THEN [writes EXCEPT ![idx].data = Overlay(@, r)]
        ELSE Append(writes, [type |-> "update", path |-> PathOf(id), data |-> r])

\* `for (const frame of sortedFrames)` (agent.ts:1092-1146); st = [objMap, writes]
RECURSIVE ExpandFrames(_, _, _, _)
ExpandFrames(sorted, children, i, st) ==
    IF i > Len(sorted) THEN st
    ELSE LET frame == sorted[i]
             inside == children[frame.id]
             boxes == {getBBox(MapGet(st.objMap, c)) : c \in inside}
             r == NewRect(frame, boxes)
         IN  IF inside = {} THEN ExpandFrames(sorted, children, i + 1, st)
             ELSE IF /\ r.x = frame.x /\ r.y = frame.y
                     /\ r.width = frame.width /\ r.height = frame.height
             THEN ExpandFrames(sorted, children, i + 1, st)
             ELSE ExpandFrames(sorted, children, i + 1,
                    [objMap |-> MapSet(st.objMap,
                                  [id |-> frame.id, type |-> "frame",
                                   x |-> r.x, y |-> r.y, width |-> r.width,
                                   height |-> r.height, radius |-> <<>>]),
                     writes |-> WritesWithRect(st.writes, frame.id, r)])

\* fitFramesToContent: the plan after the pass, with the merged state before
\* and after it and the child assignment it used
fitFramesToContent(writes, existingState) ==
    LET objMap == BuildObjMap(existingState, writes)
        frames == FrameEntries(objMap)
        children == FrameChildren(objMap)
        st == ExpandFrames(SortFrames(frames, Len(frames)), children, 1,
                           [objMap |-> objMap, writes |-> writes])
    IN  IF frames = <<>>
        THEN [writes |-> writes, before |-> objMap, after |-> objMap,
              children |-> children]
        ELSE [writes |-> st.writes, before |-> objMap, after |-> st.objMap,
              children |-> children]

\* ------------------------------------------------------------------------
\* The store as the Admin SDK writes it (agent.ts:523-544)
\* ------------------------------------------------------------------------
\* serverTimestamp() in updatedAt becomes the commit time
Resolve(data, now) ==
    [f \in DOMAIN data |-> IF f = "updatedAt" THEN now ELSE data[f]]

PutDoc(st, id, doc) ==
    [i \in (DOMAIN st) \cup {id} |-> IF i = id THEN doc ELSE st[i]]
DropDoc(st, id) == [i \in (DOMAIN st) \ {id} |-> st[i]]

\* the switch on write.type inside the batch loop.  "update" is issued as
\* batch.set(ref, data, {merge: true}): it never fails on a missing document
ApplyWrite(st, w, now) ==
    LET id == WriteId(w)
    IN  CASE w.type = "set" -> PutDoc(st, id, Resolve(w.data, now))
          [] w.type = "update" ->
               IF id \in DOMAIN st
               THEN PutDoc(st, id, Overlay(st[id], Resolve(w.data, now)))
               ELSE PutDoc(st, id, Resolve(w.data, now))
          [] w.type = "delete" -> DropDoc(st, id)

ApplyBatchHead(st, writes, i, now) ==
    IF i > Len(writes) THEN st ELSE ApplyWrite(st, writes[i], now)
RECURSIVE ApplyBatch(_, _, _, _)
ApplyBatch(st, writes, i, now) ==
    IF i > Len(writes) THEN st
    ELSE ApplyBatch(ApplyWrite(st, writes[i], now), writes, i + 1, now)

\* ------------------------------------------------------------------------
\* runBoardAgent: the turn loop (agent.ts:353-563)
\* ------------------------------------------------------------------------
MAX_TURNS == 8
PER_TURN_TIMEOUT_MS == 60000

\* Bounds of the exploration
MaxActions == 2      \* tool_use blocks processed in one invocation
MaxBlocks == 2       \* tool_use blocks in one model response
MaxToolCalls == 2    \* tool_use blocks of the tool exploration

\* ids of the snapshot
SnapshotIds(bs) == {bs[i].id : i \in 1..Len(bs)}

\* one tool_use block of `for (const block of res.content)` (agent.ts:435-461)
\* st = [allActions, pendingWrites, createdIds, nextId, toolLog, toolResults]
ProcessToolUse(st, block, bs) ==
    LET r == processToolCall(block.name, block.input, UserId, bs,
                             st.createdIds, generateId(st.nextId))
        hasWrite == "write" \in DOMAIN r
        created == hasWrite /\ r.write.type = "set"
                     /\ "objectId" \in DOMAIN r.action
    IN  [allActions |-> Append(st.allActions, r.action),
         pendingWrites |-> IF hasWrite THEN Append(st.pendingWrites, r.write)
                           ELSE st.pendingWrites,
         createdIds |-> IF created THEN st.createdIds \cup {r.action.objectId}
                        ELSE st.createdIds,
         nextId |-> IF "objectId" \in DOMAIN r.action THEN st.nextId + 1
                    ELSE st.nextId,
         toolLog |-> Append(st.toolLog,
                       [known |-> SnapshotIds(bs) \cup st.createdIds,
                        tool |-> block.name, input |-> block.input,
                        result |-> r.resultMessage, wrote |-> hasWrite,
                        planLen |-> Len(st.pendingWrites)
                                      + (IF hasWrite THEN 1 ELSE 0)]),
         toolResults |-> Append(st.toolResults, r.resultMessage)]

RECURSIVE ProcessContent(_, _, _, _)
ProcessContent(st, content, i, bs) ==
    IF i > Len(content) THEN st
    ELSE ProcessContent(
           IF content[i].type = "tool_use"
           THEN ProcessToolUse(st, content[i], bs) ELSE st,
           content, i + 1, bs)

HasText(content) == \E i \in 1..Len(content) : content[i].type = "text"

\* ---- the request and the model's possible answers ----------------------
StickyA == [id |-> "a", type |-> "sticky", x |-> 100, y |-> 100,
            width |-> 200, height |-> 200, text |-> "note", color |-> "#fef08a"]
FrameF(size) == [id |-> "f", type |-> "frame", x |-> 0, y |-> 0,
                 width |-> size, height |-> size, text |-> "Frame",
                 color |-> "#e5e7eb"]
ConnK == [id |-> "k", type |-> "connector", x |-> 0, y |-> 0, width |-> 0,
          height |-> 0, color |-> "#374151", connectedFrom |-> "a",
          connectedTo |-> "f",
          style |-> [lineStyle |-> "dashed", arrowHead |-> TRUE]]
\* the snapshot sent with the request
AgentBoards == {<<StickyA, FrameF(400), ConnK>>}

ToolUse(name, input) == [type |-> "tool_use", name |-> name, input |-> input]

\* ids the model may name: one of the snapshot, one fabricated, one that
\* generateId hands out first
RefIds == {"a", "zz", "n1"}

\* tool_use blocks of the turn loop exploration: every kind of outcome
\* (create, rejected, update, delete, no write) with few variants
AgentBlocks ==
    {ToolUse("createStickyNote", <<>>), ToolUse("createFrame", <<>>),
     ToolUse("createConnector", [fromId |-> "a", toId |-> "n1"]),
     ToolUse("createConnector", [fromId |-> "zz", toId |-> "a"]),
     ToolUse("moveObject", [objectId |-> "a", x |-> 300, y |-> 300]),
     ToolUse("moveObject", [objectId |-> "zz", x |-> 300, y |-> 300]),
     ToolUse("changeColor", [objectId |-> "n1", color |-> "#000000"]),
     ToolUse("deleteObject", [objectId |-> "a"]),
     ToolUse("deleteObject", [objectId |-> "zz"]),
     ToolUse("getBoardState", <<>>), ToolUse("bogusTool", <<>>)}

\* tool_use blocks of the tool exploration: every tool, every kind of id
ToolBlocks ==
    {ToolUse("createStickyNote", <<>>), ToolUse("createText", <<>>),
     ToolUse("createFrame", <<>>),
     ToolUse("createShape", [type |-> "circle", width |-> 100, height |-> 100]),
     ToolUse("getBoardState", <<>>), ToolUse("bogusTool", <<>>)}
    \cup {ToolUse("createConnector", [fromId |-> p[1], toId |-> p[2]]) :
            p \in {<<"a", "n1">>, <<"n1", "a">>, <<"zz", "a">>, <<"a", "zz">>}}
    \cup {ToolUse("moveObject", [objectId |-> i, x |-> 300, y |-> 300]) :
            i \in RefIds}
    \cup {ToolUse("resizeObject", [objectId |-> i, width |-> 260, height |-> 260]) :
            i \in RefIds}
    \cup {ToolUse("updateText", [objectId |-> i, newText |-> "new"]) : i \in RefIds}
    \cup {ToolUse("changeColor", [objectId |-> i, color |-> "#000000"]) :
            i \in RefIds}
    \cup {ToolUse("updateConnectorStyle", [objectId |-> i, arrowHead |-> FALSE]) :
            i \in RefIds}
    \cup {ToolUse("deleteObject", [objectId |-> i]) : i \in RefIds}
    \cup {ToolUse("createConnector",
                  [fromId |-> "a", toId |-> "f", style |-> "dashed"]),
          ToolUse("updateConnectorStyle",
                  [objectId |-> "k", arrowHead |-> FALSE]),
          ToolUse("updateConnectorStyle",
                  [objectId |-> "k", lineStyle |-> "dotted"])}

BlockSeqs(n) == UNION {[1..k -> AgentBlocks] : k \in 0..n}
\* a response: stop_reason and content; a final answer may carry a text block
Responses(n) ==
    {[stop_reason |-> "tool_use", content |-> c] : c \in BlockSeqs(n)}
    \cup {[stop_reason |-> "end_turn", content |-> t \o c] :
            t \in {<<>>, <<[type |-> "text"]>>}, c \in BlockSeqs(n)}

\* time the provider takes to answer (ms)
Latencies == {1000, 90000}

\* Promise.race([messages.create(...), timer(PER_TURN_TIMEOUT_MS)])
\* (agent.ts:396-407): what can settle first and after how long
Race(latency) ==
    [elapsed |-> Min2(latency, PER_TURN_TIMEOUT_MS),
     outcomes |-> (IF latency <= PER_TURN_TIMEOUT_MS THEN {"response"} ELSE {})
                  \cup (IF latency >= PER_TURN_TIMEOUT_MS THEN {"timeout"}
                        ELSE {})]

\* the loop header `turn < MAX_TURNS` (agent.ts:391)
LoopUnbounded(t) == TRUE
LoopContinues(t) == t < MAX_TURNS

StoreOf(bs) ==
    [id \in SnapshotIds(bs) |->
       LET o == bs[CHOOSE i \in 1..Len(bs) : bs[i].id = id]
       IN  Overlay([f \in (DOMAIN o) \ {"id"} |-> o[f]],
                   [lastEditedBy |-> "u0", updatedAt |-> 0])]

NoFit == [before |-> <<>>, after |-> <<>>, children |-> <<>>]

\* ------------------------------------------------------------------------
\* Browser clients: useFirestore, the delete handlers, connector rendering
\* ------------------------------------------------------------------------
Clients == {"A", "B"}

\* Bounds of the exploration
MaxWrites == 2       \* write operations started by all clients together
      \* write operations started by all clients together

\* the board both clients open
Sticky(x, y) == [type |-> "sticky", x |-> x, y |-> y, width |-> 200,
                 height |-> 200, rotation |-> 0, color |-> "#fef08a"]
Connector(from, to) ==
    [type |-> "connector", x |-> 0, y |-> 0, width |-> 0, height |-> 0,
     rotation |-> 0, color |-> "#374151", connectedFrom |-> from,
     connectedTo |-> to]
Signed(data, by, at) ==
    Overlay(data, [lastEditedBy |-> by, updatedAt |-> at])
InitialStore ==
    [id \in {"o1", "o2", "c1"} |->
       Signed(CASE id = "o1" -> Sticky(100, 200)
                [] id = "o2" -> Sticky(500, 200)
                [] id = "c1" -> Connector("o1", "o2"), "A", 1)]

\* objects a client may add (addObject keeps the id the caller chose)
NewObjects ==
    [id \in {"c2"} |-> Connector("o2", "o1")]
\* the position a client drags an object to
DragTo(c) == IF c = "A" THEN [x |-> 300, y |-> 300] ELSE [x |-> 500, y |-> 500]

Ids(list) == DOMAIN list

\* ConnectorShape (Connector.tsx:58-62): drawn only with both anchors found
HasAnchor(list, conn, field) ==
    field \in DOMAIN conn /\ conn[field] \in Ids(list)
ConnectorShapeFromOnly(list, id) == HasAnchor(list, list[id], "connectedFrom")
ConnectorShape(list, id) ==
    /\ HasAnchor(list, list[id], "connectedFrom")
    /\ HasAnchor(list, list[id], "connectedTo")
\* what Canvas draws of the connectors of its objects prop (Canvas.tsx:1467,1492)
CanvasConnectors(list) ==
    {id \in Ids(list) : list[id].type = "connector" /\ ConnectorShape(list, id)}

\* BoardPreview (BoardPreview.tsx): nothing is drawn for a board without
\* non-connector objects; a connector case returns null unless both ends
\* are in objMap
PreviewConnector(list, id) ==
    /\ HasAnchor(list, list[id], "connectedFrom")
    /\ HasAnchor(list, list[id], "connectedTo")
PreviewConnectors(list) ==
    IF \A id \in Ids(list) : list[id].type = "connector" THEN {}
    ELSE {id \in Ids(list) :
            list[id].type = "connector" /\ PreviewConnector(list, id)}

\* connectors of the list with an end at id (the filter of both delete handlers)
AttachedFromOnly(list, id) ==
    {c \in Ids(list) : /\ list[c].type = "connector"
                       /\ Nullish(list[c], "connectedFrom", "") = id}
Attached(list, id) ==
    {c \in Ids(list) : /\ list[c].type = "connector"
                       /\ \/ Nullish(list[c], "connectedFrom", "") = id
                          \/ Nullish(list[c], "connectedTo", "") = id}

\* a Set iterated in insertion order: ids in the order they were added
RECURSIVE SeqOfSet(_)
SeqOfSet(S) ==
    IF S = {} THEN <<>>
    ELSE LET m == CHOOSE a \in S : TRUE IN <<m>> \o SeqOfSet(S \ {m})

DeleteWrite(c, id) == [op |-> "delete", id |-> id, by |-> c]


\* server side of one client write.  updateDoc rejects with NOT_FOUND when
\* the document is missing (cf. the note at agent.ts:533-536); setDoc and
\* deleteDoc always succeed
ExistingWinsOverlay(doc, data) == Overlay(data, doc)
UpdateFields(doc, data) == Overlay(doc, data)
CommitWrite(st, w, now) ==
    CASE w.op = "set" ->
           [store |-> PutDoc(st, w.id, Resolve(w.data, now)), ok |-> TRUE]
      [] w.op = "update" ->
           IF w.id \in DOMAIN st
           THEN [store |-> PutDoc(st, w.id,
                             UpdateFields(st[w.id], Resolve(w.data, now))),
                 ok |-> TRUE]
           ELSE [store |-> st, ok |-> FALSE]
      [] w.op = "delete" -> [store |-> DropDoc(st, w.id), ok |-> TRUE]

\* PreviewObject built from d.data() (BoardPreview.tsx:31-47)
PreviewObject(doc) ==
    Overlay([f \in (DOMAIN doc) \cap
                   {"type", "color", "radius", "points", "connectedFrom",
                    "connectedTo", "style"} |-> doc[f]],
            [x |-> Nullish(doc, "x", 0), y |-> Nullish(doc, "y", 0),
             width |-> Nullish(doc, "width", 0),
             height |-> Nullish(doc, "height", 0)])

\* ---- actions of a client ------------------------------------------------
\* the list the onSnapshot callback builds: snapshot.docs mapped, nothing
\* kept of the previous list (useFirestore.ts:49-53)
SnapshotListKeepOld(old, docs) ==
    [id \in (DOMAIN old) \cup (DOMAIN docs) |->
       IF id \in DOMAIN docs THEN docs[id] ELSE old[id]]
SnapshotList(old, docs) == docs
\* onSnapshot callback (useFirestore.ts:48-55) and the render that follows
Deliver(c) ==
    /\ shown[c] # clock
    /\ objects' = [objects EXCEPT ![c] = SnapshotList(objects[c], store)]
    /\ shown' = [shown EXCEPT ![c] = clock]
    /\ canvasConn' = [canvasConn EXCEPT ![c] = CanvasConnectors(store)]
    /\ UNCHANGED <<agentVars, presenceVars, runs, httpVars, missed, store, clock, inflight, refreshBuf, preview, previewConn,
                   updateLog, lastDelete, issued>>

\* the same callback for a listener that was cut off from the server and
\* is attached again (or attached for the first time): its next snapshot
Resume(c) ==
    /\ shown[c] # clock
    /\ objects' = [objects EXCEPT ![c] = SnapshotList(objects[c], store)]
    /\ shown' = [shown EXCEPT ![c] = clock]
    /\ missed' = [missed EXCEPT ![c] = clock - shown[c]]
    /\ canvasConn' = [canvasConn EXCEPT ![c] = CanvasConnectors(store)]
    /\ UNCHANGED <<agentVars, presenceVars, runs, httpVars, store, clock, inflight, refreshBuf, preview,
                   previewConn, updateLog, lastDelete, issued>>

\* refreshObjects up to its await: getDocsFromServer reads the server
RefreshRead(c) ==
    /\ refreshBuf[c] = <<>>
    /\ shown[c] # 0
    /\ refreshBuf' = [refreshBuf EXCEPT ![c] = <<[docs |-> store, ver |-> clock]>>]
    /\ UNCHANGED <<agentVars, presenceVars, runs, httpVars, store, clock, inflight, objects, shown, missed, canvasConn, preview,
                   previewConn, updateLog, lastDelete, issued>>
\* refreshObjects after its await: setObjects(list) (useFirestore.ts:86-90)
RefreshApply(c) ==
    /\ refreshBuf[c] # <<>>
    /\ LET list == refreshBuf[c][1].docs
       IN  /\ objects' = [objects EXCEPT ![c] = list]
           /\ shown' = [shown EXCEPT ![c] = refreshBuf[c][1].ver]
                  /\ canvasConn' = [canvasConn EXCEPT ![c] = CanvasConnectors(list)]
    /\ refreshBuf' = [refreshBuf EXCEPT ![c] = <<>>]
    /\ UNCHANGED <<agentVars, presenceVars, runs, httpVars, missed, store, clock, inflight, preview, previewConn, updateLog,
                   lastDelete, issued>>

\* what the user has selected when Delete is pressed: one object of the
\* list (selectOne), or all its non-connector objects together with the
\* connectors between them (a marquee over the board, Canvas.tsx:826-860).
\* The selection-pruning effect (BoardView.tsx:400-408) keeps the selection
\* inside the list
Selections(list) ==
    LET all == {id \in Ids(list) : list[id].type # "connector"}
        between == {id \in Ids(list) :
                      /\ list[id].type = "connector"
                      /\ Nullish(list[id], "connectedFrom", "") \in all
                      /\ Nullish(list[id], "connectedTo", "") \in all}
    IN  ({{id} : id \in Ids(list)} \cup {all \cup between}) \ {{}}

IssueDeletes(c, sel, ids) ==
    /\ inflight' = [inflight EXCEPT ![c] =
                      @ \o [i \in 1..Len(ids) |-> DeleteWrite(c, ids[i])]]
    /\ issued' = issued + 1
    /\ lastDelete' = <<[by |-> c, selected |-> sel, list |-> objects[c],
                        writes |-> [i \in 1..Len(ids) |-> DeleteWrite(c, ids[i])]]>>
    /\ UNCHANGED <<agentVars, presenceVars, runs, httpVars, store, clock, objects, shown, missed, refreshBuf, canvasConn,
                   preview, previewConn, updateLog>>

\* Canvas.tsx:379-393: the selection first, then the connectors added to it
deleteAllSelected(c) ==
    /\ issued < MaxWrites
    /\ \E sel \in Selections(objects[c]) :
         LET conns == UNION {Attached(objects[c], id) : id \in sel}
         IN  IssueDeletes(c, sel, SeqOfSet(sel) \o SeqOfSet(conns \ sel))

\* BoardView.tsx:495-511: the attached connectors first, then the selection
handleDelete(c) ==
    /\ issued < MaxWrites
    /\ \E sel \in Selections(objects[c]) :
         LET connectorIds == UNION {Attached(objects[c], id) : id \in sel}
         IN  IssueDeletes(c, sel, SeqOfSet(connectorIds) \o SeqOfSet(sel))

Issue(c, w) ==
    /\ issued < MaxWrites
    /\ inflight' = [inflight EXCEPT ![c] = Append(@, w)]
    /\ issued' = issued + 1
    /\ UNCHANGED <<agentVars, presenceVars, runs, httpVars, store, clock, objects, shown, missed, refreshBuf, canvasConn,
                   preview, previewConn, updateLog, lastDelete>>

\* addObject (useFirestore.ts:60-67): setDoc under the id of the object
addObject(c) ==
    \E id \in DOMAIN NewObjects :
      /\ id \notin Ids(objects[c])
      /\ shown[c] # 0
      /\ Issue(c, [op |-> "set", id |-> id, by |-> c,
                   data |-> Signed(NewObjects[id], c, ServerTimestamp)])

\* updateObject (useFirestore.ts:69-75) for a drag of an object of the list
updateObject(c) ==
    \E id \in Ids(objects[c]) :
      /\ objects[c][id].type # "connector"
      /\ Issue(c, [op |-> "update", id |-> id, by |-> c, seen |-> shown[c],
                   data |-> Signed(DragTo(c), c, ServerTimestamp)])

\* deleteObject (useFirestore.ts:77-79) of one object of the list
deleteObject(c) ==
    \E id \in Ids(objects[c]) : Issue(c, DeleteWrite(c, id))

\* the server processes the oldest write a client has in flight
Commit(c) ==
    /\ inflight[c] # <<>>
    /\ LET w == Head(inflight[c])
           r == CommitWrite(store, w, clock + 1)
           changed == r.store # store
       IN  /\ store' = r.store
           /\ clock' = IF changed THEN clock + 1 ELSE clock
           /\ updateLog' =
                IF w.op # "update" THEN updateLog
                ELSE Append(updateLog,
                       [id |-> w.id, by |-> w.by, data |-> w.data,
                        seen |-> w.seen, existed |-> w.id \in DOMAIN store,
                        ok |-> r.ok, present |-> w.id \in DOMAIN r.store,
                        ver |-> IF changed THEN clock + 1 ELSE clock])
    /\ inflight' = [inflight EXCEPT ![c] = Tail(@)]
    /\ UNCHANGED <<agentVars, presenceVars, runs, httpVars, objects, shown, missed, refreshBuf, canvasConn, preview,
                   previewConn, lastDelete, issued>>

\* BoardPreview: getDocs on mount, then setObjects(objs); the preview reads
\* the collection once and nothing else touches its list
LoadPreview ==
    /\ preview = <<>>
    /\ LET list == [id \in DOMAIN store |-> PreviewObject(store[id])]
       IN  /\ preview' = <<list>>
           /\ previewConn' = PreviewConnectors(list)
    /\ UNCHANGED <<agentVars, presenceVars, runs, httpVars, store, clock, inflight, objects, shown, missed, refreshBuf,
                   canvasConn, updateLog, lastDelete, issued>>

\* ------------------------------------------------------------------------
\* usePresence (src/hooks/usePresence.ts), PresenceBar and CursorOverlay
\*   Times are milliseconds.  Two sessions of one user share the entry
\*   presence/{userId}.
\* ------------------------------------------------------------------------
STALE_CURSOR_MS == 60000
THROTTLE_MS == 60
KEEPALIVE_MS == 20000
STALE_MS == 30000
\* tunables of the specification that no source line sets
STALE_STORE_MS == 60000
REAPER_PERIOD_MS == 10000

Sessions == {"a1", "a2", "b1"}
PUsers == {"alice", "bob"}
Owner(s) == IF s = "b1" THEN "bob" ELSE "alice"
\* the session whose screen is observed, and the sessions that move the
\* pointer
Viewers == {"b1"}
Movers == {"a1", "b1"}
CursorPositions == {<<10, 10>>, <<20, 20>>}
\* Date.now() when the page is opened: epoch milliseconds, far above any of
\* the intervals, so that a fresh lastSentRef of 0 never throttles
StartTime == 100000
MaxTicks == 4
MaxWaits == 4
\* the time grids of the two presence specifications
TickMs == KEEPALIVE_MS
CursorStepMs == THROTTLE_MS \div 3

NoEntry == [there |-> FALSE, lastSeen |-> 0, cursor |-> <<0, 0>>]
NoMove == [pos |-> <<0, 0>>, admitted |-> FALSE, prev |-> 0]

PresenceIdle ==
    /\ nowMs = StartTime
    /\ presence = [u \in PUsers |-> NoEntry]
    /\ sess = [s \in Sessions |-> "new"]
    /\ kaDue = [s \in Sessions |-> 0]
    /\ lastSent = [s \in Sessions |-> 0]
    /\ lastMove = [s \in Sessions |-> NoMove]
    /\ allUsers = [s \in Sessions |-> [u \in PUsers |-> NoEntry]]
    /\ pending = [s \in Sessions |-> FALSE]

\* the filter of the subscription callback and of PresenceBar: entries with a
\* lastSeen less than `limit` ms before t
FreshUsers(docs, t, limit) ==
    [u \in PUsers |->
        IF docs[u].there /\ t - docs[u].lastSeen < limit THEN docs[u]
        ELSE NoEntry]
\* PresenceBar: the users it lists; it renders when allUsers changes and on
\* its 10 s interval
activeUsers(s) ==
    {u \in PUsers : FreshUsers(allUsers[s], nowMs, STALE_MS)[u].there}
\* CursorOverlay draws one cursor per entry of otherUsers
otherUsers(s) == {u \in PUsers : allUsers[s][u].there /\ u # Owner(s)}

\* a change of the collection is sent to every subscribed viewer
Notify(to) == [s \in Sessions |-> pending[s] \/ (s \in to /\ s \in Viewers)]
Subscribed == {s \in Sessions : sess[s] = "open"}

\* mount effect: setDoc of the whole entry, keepalive interval started,
\* subscription opened
Mount(s) ==
    /\ sess[s] = "new"
    /\ sess' = [sess EXCEPT ![s] = "open"]
    /\ presence' = [presence EXCEPT ![Owner(s)] =
                      [there |-> TRUE, lastSeen |-> nowMs,
                       cursor |-> <<0, 0>>]]
    /\ pending' = Notify(Subscribed \cup {s})
    /\ kaDue' = [kaDue EXCEPT ![s] = nowMs + KEEPALIVE_MS]
    /\ UNCHANGED <<agentVars, boardVars, runs, httpVars, nowMs, lastSent, lastMove, allUsers>>

\* cleanup of the mount effect (and beforeunload): deleteDoc of the entry
Unmount(s) ==
    /\ sess[s] = "open"
    /\ sess' = [sess EXCEPT ![s] = "closed"]
    /\ presence' = [presence EXCEPT ![Owner(s)] = NoEntry]
    /\ pending' = [Notify(IF presence[Owner(s)].there THEN Subscribed ELSE {})
                     EXCEPT ![s] = FALSE]
    /\ UNCHANGED <<agentVars, boardVars, runs, httpVars, nowMs, kaDue, lastSent, lastMove,
                   allUsers>>

\* the tab is killed or loses the network at unload: no delete reaches the
\* server, the timers of the session are gone
Crash(s) ==
    /\ sess[s] = "open"
    /\ sess' = [sess EXCEPT ![s] = "dead"]
    /\ pending' = [pending EXCEPT ![s] = FALSE]
    /\ UNCHANGED <<agentVars, boardVars, runs, httpVars, nowMs, presence, kaDue, lastSent,
                   lastMove, allUsers>>

\* keepalive interval: updateDoc(ref, {lastSeen}) with the rejection
\* swallowed; updateDoc fails with NOT_FOUND when the entry is gone
Keepalive(s) ==
    /\ sess[s] = "open" /\ kaDue[s] <= nowMs
    /\ kaDue' = [kaDue EXCEPT ![s] = kaDue[s] + KEEPALIVE_MS]
    /\ IF presence[Owner(s)].there
       THEN /\ presence' = [presence EXCEPT ![Owner(s)].lastSeen = nowMs]
            /\ pending' = Notify(Subscribed)
       ELSE UNCHANGED <<presence, pending>>
    /\ UNCHANGED <<agentVars, boardVars, runs, httpVars, nowMs, sess, lastSent, lastMove,
                   allUsers>>

ThrottledNever(t, last) == FALSE
Throttled(t, last) == t - last < THROTTLE_MS
\* updateCursor(x, y)
updateCursor(s, pos) ==
    /\ sess[s] = "open"
    /\ IF Throttled(nowMs, lastSent[s])
       THEN /\ lastMove' = [lastMove EXCEPT ![s] =
                  [pos |-> pos, admitted |-> FALSE, prev |-> lastSent[s]]]
            /\ UNCHANGED <<lastSent, presence, pending>>
       ELSE /\ lastMove' = [lastMove EXCEPT ![s] =
                  [pos |-> pos, admitted |-> TRUE, prev |-> lastSent[s]]]
            /\ lastSent' = [lastSent EXCEPT ![s] = nowMs]
            /\ IF presence[Owner(s)].there
               THEN /\ presence' = [presence EXCEPT ![Owner(s)].cursor = pos]
                    /\ pending' = Notify(Subscribed)
               ELSE UNCHANGED <<presence, pending>>
    /\ UNCHANGED <<agentVars, boardVars, runs, httpVars, nowMs, sess, kaDue, allUsers>>

\* onSnapshot callback of the presence collection
PresenceSnapshot(s) ==
    /\ sess[s] = "open" /\ pending[s]
    /\ allUsers' = [allUsers EXCEPT ![s] =
                      FreshUsers(presence, nowMs, STALE_CURSOR_MS)]
    /\ pending' = [pending EXCEPT ![s] = FALSE]
    /\ UNCHANGED <<agentVars, boardVars, runs, httpVars, nowMs, presence, sess, kaDue,
                   lastSent, lastMove>>

\* 20 s pass; every keepalive that was due has fired before
Tick ==
    /\ nowMs < StartTime + MaxTicks * TickMs
    /\ \A s \in Sessions : sess[s] = "open" => kaDue[s] > nowMs
    /\ nowMs' = nowMs + TickMs
    /\ UNCHANGED <<agentVars, boardVars, runs, httpVars, presence, sess, kaDue, lastSent,
                   lastMove, allUsers, pending>>

\* 20 ms pass between two pointer events
CursorWait ==
    /\ nowMs < StartTime + MaxWaits * CursorStepMs
    /\ nowMs' = nowMs + CursorStepMs
    /\ UNCHANGED <<agentVars, boardVars, runs, httpVars, presence, sess, kaDue, lastSent,
                   lastMove, allUsers, pending>>

\* ------------------------------------------------------------------------
\* runBoardAgent as a state machine
\*   pc: "call"  awaiting anthropic.messages.create of turn `turn`
\*       "exit"  turn loop left, plan not yet committed
\*       "flush" batch committed (or nothing to commit), flushTraces pending
\*       "done"  result returned      "failed"  the invocation threw
\* ------------------------------------------------------------------------
AgentIdle ==
    /\ pc = "idle" /\ turn = 0 /\ boardState = <<>> /\ allActions = <<>>
    /\ pendingWrites = <<>> /\ createdIds = {} /\ agentSummary = <<>>
    /\ nextId = 0 /\ llmCalls = 0 /\ turnElapsed = 0 /\ timedOut = <<>> /\ nudges = 0 /\ lastStop = ""
    /\ toolLog = <<>> /\ batches = <<>> /\ agentStore = <<>>
    /\ agentClock = 0 /\ fitOut = NoFit
BoardIdle ==
    /\ store = <<>> /\ clock = 0
    /\ inflight = [c \in Clients |-> <<>>]
    /\ objects = [c \in Clients |-> <<>>]
    /\ shown = [c \in Clients |-> 0]
    /\ missed = [c \in Clients |-> 0]
    /\ refreshBuf = [c \in Clients |-> <<>>]
    /\ canvasConn = [c \in Clients |-> {}]
    /\ preview = <<>> /\ previewConn = {}
    /\ updateLog = <<>> /\ lastDelete = <<>> /\ issued = 0

AgentStart(bs, at) ==
    /\ pc = at /\ turn = 0 /\ boardState = bs /\ allActions = <<>>
    /\ pendingWrites = <<>> /\ createdIds = {} /\ agentSummary = <<>>
    /\ nextId = 0 /\ llmCalls = 0 /\ turnElapsed = 0 /\ timedOut = <<>> /\ nudges = 0 /\ lastStop = ""
    /\ toolLog = <<>> /\ batches = <<>> /\ agentStore = StoreOf(bs)
    /\ agentClock = 0 /\ fitOut = NoFit

\* allActions.length === 0 && turn === 0 (agent.ts:465)
NoToolsOnAnyTurn(actions, t) == actions = <<>>
NoToolsOnTurn0(actions, t) == actions = <<>> /\ t = 0

\* the body of one loop iteration once the model has answered
\* (agent.ts:421-503)
TurnResponseWith(latency, res) ==
    LET st == ProcessContent(
                [allActions |-> allActions, pendingWrites |-> pendingWrites,
                 createdIds |-> createdIds, nextId |-> nextId,
                 toolLog |-> toolLog, toolResults |-> <<>>],
                res.content, 1, boardState)
        stopped == res.stop_reason # "tool_use"
        nudge == stopped /\ NoToolsOnTurn0(st.allActions, turn)
        leave == stopped /\ ~nudge
    IN  /\ "response" \in Race(latency).outcomes
        /\ llmCalls' = llmCalls + 1
        /\ turnElapsed' = Race(latency).elapsed
        /\ allActions' = st.allActions
        /\ pendingWrites' = st.pendingWrites
        /\ createdIds' = st.createdIds
        /\ nextId' = st.nextId
        /\ toolLog' = st.toolLog
        /\ agentSummary' = IF HasText(res.content)
                           THEN Append(agentSummary, "text")
                           ELSE agentSummary
        /\ nudges' = IF nudge THEN nudges + 1 ELSE nudges
        /\ lastStop' = res.stop_reason
        /\ turn' = IF leave THEN turn ELSE turn + 1
        /\ pc' = IF leave \/ ~LoopContinues(turn + 1) THEN "exit"
                 ELSE "call"
        /\ UNCHANGED <<boardState, timedOut, batches, agentStore, agentClock,
                       fitOut, boardVars, presenceVars, runs>>
TurnResponse ==
    /\ pc = "call"
    /\ \E latency \in Latencies :
       \E res \in Responses(Min2(MaxBlocks, MaxActions - Len(allActions))) :
         TurnResponseWith(latency, res)
    /\ UNCHANGED httpVars

\* the catch block around the awaited call (agent.ts:408-419)
TurnTimeoutWith(latency) ==
    /\ "timeout" \in Race(latency).outcomes
    /\ turnElapsed' = Race(latency).elapsed
    /\ llmCalls' = llmCalls + 1
    /\ timedOut' = <<pendingWrites>>
    /\ IF Len(allActions) > 0
       THEN /\ agentSummary' = Append(agentSummary, "partial")
            /\ pc' = "exit"
       ELSE /\ agentSummary' = agentSummary
            /\ pc' = "failed"
    /\ UNCHANGED <<turn, nudges, lastStop, boardState, allActions,
                   pendingWrites, createdIds, nextId, toolLog, batches,
                   agentStore, agentClock, fitOut, boardVars, presenceVars,
                   runs>>
TurnTimeout ==
    /\ pc = "call"
    /\ \E latency \in Latencies : TurnTimeoutWith(latency)
    /\ UNCHANGED httpVars

\* fitFramesToContent, then the batch (agent.ts:519-544)
CommitBody ==
    LET fit == fitFramesToContent(pendingWrites, boardState)
    IN  /\ pendingWrites' = fit.writes
        /\ fitOut' = [before |-> fit.before, after |-> fit.after,
                      children |-> fit.children]
        /\ IF fit.writes # <<>>
           THEN /\ batches' = Append(batches, fit.writes)
                /\ agentStore' = ApplyBatch(agentStore, fit.writes, 1,
                                            agentClock + 1)
                /\ agentClock' = agentClock + 1
           ELSE UNCHANGED <<batches, agentStore, agentClock>>
        /\ pc' = "flush"
        /\ UNCHANGED <<turn, boardState, allActions, createdIds, agentSummary,
                       nextId, llmCalls, turnElapsed, timedOut, nudges, lastStop, toolLog,
                       boardVars, presenceVars, runs, httpVars>>
CommitPlan == pc = "exit" /\ CommitBody

\* flushTraces, then the result is returned (agent.ts:556-563)
FlushTraces ==
    /\ pc = "flush"
    /\ pc' = "done"
    /\ UNCHANGED <<turn, boardState, allActions, pendingWrites, createdIds,
                   agentSummary, nextId, llmCalls, turnElapsed, timedOut, nudges, lastStop,
                   toolLog, batches, agentStore, agentClock, fitOut, boardVars, presenceVars, runs, httpVars>>

\* another client's deleteObject commits while the invocation is running
\* (the invocation reads nothing from the store before its commit, so the
\* moment of the delete within the run makes no difference to it)
EnvDelete ==
    /\ pc = "exit"
    /\ "a" \in DOMAIN agentStore
    /\ agentStore' = DropDoc(agentStore, "a")
    /\ agentClock' = agentClock + 1
    /\ UNCHANGED <<pc, turn, boardState, allActions, pendingWrites, createdIds,
                   agentSummary, nextId, llmCalls, turnElapsed, timedOut, nudges, lastStop,
                   toolLog, batches, fitOut, boardVars, presenceVars, runs, httpVars>>

\* ------------------------------------------------------------------------
\* The tools on their own: the blocks of a run processed one after another
\* as the loop body does, then the commit
\* ------------------------------------------------------------------------
Plan(blocks, max) ==
    /\ pc = "plan"
    /\ Len(allActions) < max
    /\ \E block \in blocks :
         LET st == ProcessToolUse(
                     [allActions |-> allActions, pendingWrites |-> pendingWrites,
                      createdIds |-> createdIds, nextId |-> nextId,
                      toolLog |-> toolLog, toolResults |-> <<>>],
                     block, boardState)
         IN  /\ allActions' = st.allActions
             /\ pendingWrites' = st.pendingWrites
             /\ createdIds' = st.createdIds
             /\ nextId' = st.nextId
             /\ toolLog' = st.toolLog
    /\ UNCHANGED <<pc, turn, boardState, agentSummary, llmCalls, turnElapsed,
                   timedOut, nudges, lastStop, batches, agentStore, agentClock, fitOut, boardVars, presenceVars, runs, httpVars>>
CommitPlanned == pc = "plan" /\ CommitBody

PlanTool == Plan(ToolBlocks, MaxToolCalls)
InitTools ==
    (\E bs \in AgentBoards : AgentStart(bs, "plan")) /\ BoardIdle
    /\ PresenceIdle /\ runs = <<>> /\ HttpIdle
NextTools == PlanTool \/ CommitPlanned \/ FlushTraces
SpecTools == InitTools /\ [][NextTools]_vars

\* ------------------------------------------------------------------------
\* The auto-fit pass on plans that place frames and their content
\* ------------------------------------------------------------------------
MaxFitCalls == 3     \* tool_use blocks of the frame exploration

FitBoards == {<<>>, <<StickyA>>, <<FrameF(100)>>}
FitBlocks ==
    {ToolUse("createFrame", <<>>),
     ToolUse("createFrame", [x |-> 0, y |-> 0, width |-> 100, height |-> 100]),
     ToolUse("createFrame", [x |-> 50, y |-> 50, width |-> 300, height |-> 300]),
     ToolUse("createStickyNote", <<>>),
     ToolUse("createStickyNote", [x |-> 200, y |-> 200]),
     ToolUse("createShape", [type |-> "circle", x |-> 450, y |-> 450,
                             width |-> 100, height |-> 100]),
     ToolUse("moveObject", [objectId |-> "n1", x |-> 600, y |-> 600]),
     ToolUse("resizeObject", [objectId |-> "n2", width |-> 260, height |-> 260]),
     ToolUse("deleteObject", [objectId |-> "n1"])}

PlanGeom == Plan(FitBlocks, MaxFitCalls)
InitFit ==
    (\E bs \in FitBoards : AgentStart(bs, "plan")) /\ BoardIdle
    /\ PresenceIdle /\ runs = <<>> /\ HttpIdle
NextFit == PlanGeom \/ CommitPlanned \/ FlushTraces
SpecFit == InitFit /\ [][NextFit]_vars

InitAgent ==
    (\E bs \in AgentBoards : AgentStart(bs, "call")) /\ BoardIdle
    /\ PresenceIdle /\ runs = <<>> /\ HttpIdle
NextAgent == TurnResponse \/ TurnTimeout \/ CommitPlan \/ FlushTraces \/ EnvDelete
SpecAgent == InitAgent /\ [][NextAgent]_vars

\* ------------------------------------------------------------------------
\* The board with two clients
\* ------------------------------------------------------------------------
InitBoard ==
    /\ AgentIdle /\ PresenceIdle /\ runs = <<>> /\ HttpIdle
    /\ store = InitialStore /\ clock = 1
    /\ inflight = [c \in Clients |-> <<>>]
    /\ objects = [c \in Clients |-> <<>>]
    /\ shown = [c \in Clients |-> 0]
    /\ missed = [c \in Clients |-> 0]
    /\ refreshBuf = [c \in Clients |-> <<>>]
    /\ canvasConn = [c \in Clients |-> {}]
    /\ preview = <<>> /\ previewConn = {}
    /\ updateLog = <<>> /\ lastDelete = <<>> /\ issued = 0

\* two clients on the hook's operations: onSnapshot deliveries, refreshes,
\* drags and deletes racing with the server's commits
NextSync ==
    \/ \E c \in Clients : Deliver(c)
    \/ \E c \in Clients : RefreshRead(c)
    \/ \E c \in Clients : RefreshApply(c)
    \/ \E c \in Clients : deleteObject(c)
    \/ \E c \in Clients : updateObject(c)
    \/ \E c \in Clients : Commit(c)
SpecSync == InitBoard /\ [][NextSync]_vars

\* clients that come back after having missed commits: adds, drags and
\* deletes of the other client meanwhile
NextResume ==
    \/ \E c \in Clients : Resume(c)
    \/ \E c \in Clients : addObject(c)
    \/ \E c \in Clients : updateObject(c)
    \/ \E c \in Clients : deleteObject(c)
    \/ \E c \in Clients : Commit(c)
SpecResume == InitBoard /\ [][NextResume]_vars

\* the delete handlers of the two clients, racing with a connector being
\* added, and a dashboard preview loading the board
NextCascade ==
    \/ \E c \in Clients : Deliver(c)
    \/ \E c \in Clients : deleteAllSelected(c)
    \/ \E c \in Clients : handleDelete(c)
    \/ \E c \in Clients : addObject(c)
    \/ \E c \in Clients : Commit(c)
    \/ LoadPreview
SpecCascade == InitBoard /\ [][NextCascade]_vars

\* ------------------------------------------------------------------------
\* The tools on shapes: types and sizes the model may pass
\* ------------------------------------------------------------------------
MaxShapeCalls == 2
ShapeBlocks ==
    {ToolUse("createShape", [type |-> "circle", width |-> 100, height |-> 100]),
     ToolUse("createShape", [type |-> "circle", width |-> 0, height |-> 0]),
     ToolUse("createShape", [type |-> "rectangle", width |-> -50, height |-> 40]),
     ToolUse("createShape", [type |-> "hexagon", width |-> 100, height |-> 100]),
     ToolUse("bogusTool", <<>>),
     ToolUse("resizeObject", [objectId |-> "a", width |-> 0, height |-> 0]),
     ToolUse("resizeObject", [objectId |-> "n1", width |-> 260, height |-> 260])}
PlanShape == Plan(ShapeBlocks, MaxShapeCalls)
NextShapes == PlanShape \/ CommitPlanned \/ FlushTraces
SpecShapes == InitTools /\ [][NextShapes]_vars

\* ------------------------------------------------------------------------
\* Two invocations of runBoardAgent on the same board, each sent the same
\* snapshot, planning and committing in any interleaving
\* ------------------------------------------------------------------------
Invocations == {"i1", "i2"}
MaxConcCalls == 2
\* generateId draws 20 random characters: the two invocations never draw the
\* same id; each takes its ids from its own part of GenIds
IdBase(i) == IF i = "i1" THEN 0 ELSE 3
OwnIds(i) == {GenIds[k] : k \in (IdBase(i) + 1)..(IdBase(i) + 3)}
\* what the model may ask for: creations, and changes of a snapshot object, of
\* an id the first invocation draws and of one the second draws
ConcBlocks ==
    {ToolUse("createStickyNote", <<>>), ToolUse("createFrame", <<>>),
     ToolUse("moveObject", [objectId |-> "a", x |-> 300, y |-> 300]),
     ToolUse("deleteObject", [objectId |-> "n1"]),
     ToolUse("deleteObject", [objectId |-> "n4"])}
\* the locals runBoardAgent starts with
NewRun(i) ==
    [pc |-> "plan", allActions |-> <<>>, pendingWrites |-> <<>>,
     createdIds |-> {}, nextId |-> IdBase(i), toolLog |-> <<>>,
     batch |-> <<>>]
\* the createdIds set an invocation tests ids against: its own local
createdIdsShared(i) == UNION {runs[j].createdIds : j \in Invocations}
createdIdsOf(i) == runs[i].createdIds

InitConcurrent ==
    /\ \E bs \in AgentBoards : AgentStart(bs, "runs")
    /\ BoardIdle /\ PresenceIdle
    /\ runs = [i \in Invocations |-> NewRun(i)] /\ HttpIdle

\* one tool_use block of invocation i
ConcPlan(i) ==
    /\ runs[i].pc = "plan"
    /\ Len(runs[i].allActions) < MaxConcCalls
    /\ \E block \in ConcBlocks :
         LET st == ProcessToolUse(
                     [allActions |-> runs[i].allActions,
                      pendingWrites |-> runs[i].pendingWrites,
                      createdIds |-> createdIdsOf(i),
                      nextId |-> runs[i].nextId,
                      toolLog |-> runs[i].toolLog, toolResults |-> <<>>],
                     block, boardState)
         IN  runs' = [runs EXCEPT ![i] =
                        [pc |-> "plan", allActions |-> st.allActions,
                         pendingWrites |-> st.pendingWrites,
                         createdIds |-> (runs[i].createdIds
                                           \cup (st.createdIds
                                                   \ createdIdsOf(i))),
                         nextId |-> st.nextId, toolLog |-> st.toolLog,
                         batch |-> <<>>]]
    /\ UNCHANGED <<agentVars, boardVars, presenceVars, httpVars>>

\* invocation i leaves its loop: fitFramesToContent, then its batch
ConcCommit(i) ==
    /\ runs[i].pc = "plan"
    /\ LET fit == fitFramesToContent(runs[i].pendingWrites, boardState)
       IN  /\ runs' = [runs EXCEPT ![i].pc = "done", ![i].batch = fit.writes]
           /\ IF fit.writes # <<>>
              THEN /\ agentStore' = ApplyBatch(agentStore, fit.writes, 1,
                                               agentClock + 1)
                   /\ agentClock' = agentClock + 1
              ELSE UNCHANGED <<agentStore, agentClock>>
    /\ UNCHANGED <<pc, turn, boardState, allActions, pendingWrites, createdIds,
                   agentSummary, nextId, llmCalls, turnElapsed, timedOut, nudges, lastStop,
                   toolLog, batches, fitOut, boardVars, presenceVars, httpVars>>

NextConcurrent ==
    \/ \E i \in Invocations : ConcPlan(i)
    \/ \E i \in Invocations : ConcCommit(i)
SpecConcurrent == InitConcurrent /\ [][NextConcurrent]_vars

\* ------------------------------------------------------------------------
\* The boardAgent HTTP function (part_005:59-124) around one runBoardAgent
\* ------------------------------------------------------------------------
MaxEndpointCalls == 2     \* tool_use blocks of an invocation behind the gate

\* admin.auth().verifyIdToken: the ID tokens the identity provider has issued
\* and the uid each decodes to; any other string makes it throw
IssuedTokens == {"tokU1", "tokU2"}
verifyIdToken(token) ==
    IF token = "tokU1" THEN [ok |-> TRUE, uid |-> "u1"]
    ELSE IF token = "tokU2" THEN [ok |-> TRUE, uid |-> "u2"]
    ELSE [ok |-> FALSE, uid |-> ""]

\* request.headers.authorization: absent (<<>>), or a scheme and the rest
Authorizations ==
    {<<>>,
     [scheme |-> "Basic ", rest |-> "tokU1"],
     [scheme |-> "Bearer ", rest |-> "forged"],
     [scheme |-> "Bearer ", rest |-> "tokU1"],
     [scheme |-> "Bearer ", rest |-> "tokU2"]}
Methods == {"OPTIONS", "GET", "POST"}
Bodies ==
    {<<>>,
     [boardId |-> "b1"],
     [command |-> "tidy up"],
     [boardId |-> "", command |-> "tidy up"],
     [boardId |-> "b1", command |-> "tidy up"],
     [boardId |-> "b1", command |-> "tidy up", userId |-> "u2"],
     [boardId |-> "b1", command |-> "tidy up",
      boardState |-> <<StickyA, FrameF(400), ConnK>>],
     [boardId |-> "b1", command |-> "tidy up", userId |-> "u1",
      boardState |-> <<StickyA, FrameF(400), ConnK>>]}
Requests ==
    {[method |-> m, authorization |-> a, body |-> b] :
        m \in Methods, a \in Authorizations, b \in Bodies}

\* authHeader?.startsWith("Bearer ") (part_005:82)
startsWithBearer(authHeader) ==
    authHeader # <<>> /\ authHeader.scheme = "Bearer "
\* !boardId || !command (part_005:101)
Falsy(body, f) == Nullish(body, f, "") = ""

Send(status, json) == [status |-> status, json |-> json]

\* the userId of the AgentRequest (part_005:92, 113)
AgentUserIdFromBody(decoded, body) == Nullish(body, "userId", decoded.uid)
AgentUserId(decoded, body) == decoded.uid

\* the checks before runBoardAgent, in the order of the code
\* (part_005:70-106); status 0: none of them answered
GateBodyFirst(req) ==
    IF req.method = "OPTIONS" THEN Send(204, "")
    ELSE IF req.method # "POST" THEN Send(405, "error")
    ELSE IF Falsy(req.body, "boardId") \/ Falsy(req.body, "command")
         THEN Send(400, "error")
    ELSE IF ~startsWithBearer(req.authorization) THEN Send(401, "error")
    ELSE IF ~verifyIdToken(req.authorization.rest).ok THEN Send(401, "error")
    ELSE Send(0, "")
Gate(req) ==
    IF req.method = "OPTIONS" THEN Send(204, "")
    ELSE IF req.method # "POST" THEN Send(405, "error")
    ELSE IF ~startsWithBearer(req.authorization) THEN Send(401, "error")
    ELSE IF ~verifyIdToken(req.authorization.rest).ok THEN Send(401, "error")
    ELSE IF Falsy(req.body, "boardId") \/ Falsy(req.body, "command")
         THEN Send(400, "error")
    ELSE Send(0, "")

EndpointBlocks ==
    {ToolUse("createStickyNote", <<>>),
     ToolUse("moveObject", [objectId |-> "a", x |-> 300, y |-> 300]),
     ToolUse("updateText", [objectId |-> "zz", newText |-> "x"])}

\* the function up to its first answer or to the runBoardAgent call
\* (part_005:61-114)
boardAgent ==
    /\ pc = "idle" /\ response = <<>>
    /\ LET g == Gate(request)
       IN  IF g.status # 0
           THEN /\ response' = g
                /\ UNCHANGED <<pc, boardState, reqUserId>>
           ELSE /\ pc' = "plan"
                /\ boardState' = Nullish(request.body, "boardState", <<>>)
                /\ reqUserId' =
                     AgentUserId(verifyIdToken(request.authorization.rest),
                                 request.body)
                /\ response' = response
    /\ UNCHANGED <<turn, allActions, pendingWrites, createdIds, agentSummary,
                   nextId, llmCalls, turnElapsed, timedOut, nudges, lastStop, toolLog, batches,
                   agentStore, agentClock, fitOut, boardVars, presenceVars,
                   runs, request, runtimeVars>>

PlanEndpoint ==
    Plan(EndpointBlocks, MaxEndpointCalls)

AgentStep(from, to) ==
    /\ pc = from /\ pc' = to
    /\ UNCHANGED <<turn, boardState, allActions, pendingWrites, createdIds,
                   agentSummary, nextId, llmCalls, turnElapsed, timedOut, nudges, lastStop,
                   toolLog, batches, agentStore, agentClock, fitOut,
                   boardVars, presenceVars, runs, httpVars>>

\* runBoardAgent throws before anything is planned: no API key
\* (agent.ts:354-358), no Langfuse keys (observability.ts:12-17), or the
\* first model call fails with allActions empty (agent.ts:411-419)
RunThrows ==
    /\ allActions = <<>>
    /\ AgentStep("plan", "failed")

\* batch.commit() rejects: none of the batch is applied (agent.ts:544)
CommitRejected ==
    /\ fitFramesToContent(pendingWrites, boardState).writes # <<>>
    /\ AgentStep("plan", "failed")

\* the read-back after the commit rejects (agent.ts:548-553)
VerifyReadThrows ==
    /\ \E k \in 1..Len(pendingWrites) : pendingWrites[k].type = "update"
    /\ AgentStep("flush", "failed")

\* _langfuse.flushAsync() rejects (agent.ts:556, observability.ts:148-152)
FlushThrows ==
    /\ pc = "flush"
    /\ AgentStep("flush", "failed")

\* response.status(200).json(result) or the catch (part_005:116-122)
Respond ==
    /\ pc \in {"done", "failed"} /\ response = <<>>
    /\ response' = IF pc = "done" THEN Send(200, "result")
                   ELSE Send(500, "error")
    /\ UNCHANGED <<agentVars, boardVars, presenceVars, runs, request,
                   reqUserId, runtimeVars>>

InitEndpoint ==
    /\ pc = "idle" /\ turn = 0 /\ boardState = <<>> /\ allActions = <<>>
    /\ pendingWrites = <<>> /\ createdIds = {} /\ agentSummary = <<>>
    /\ nextId = 0 /\ llmCalls = 0 /\ turnElapsed = 0 /\ timedOut = <<>> /\ nudges = 0 /\ lastStop = ""
    /\ toolLog = <<>> /\ batches = <<>> /\ agentClock = 0 /\ fitOut = NoFit
    /\ \E bs \in AgentBoards : agentStore = StoreOf(bs)
    /\ BoardIdle /\ PresenceIdle /\ runs = <<>>
    /\ request \in Requests /\ response = <<>> /\ reqUserId = ""
    /\ RuntimeIdle
NextEndpoint ==
    \/ boardAgent \/ PlanEndpoint \/ RunThrows \/ CommitRejected
    \/ CommitPlanned \/ VerifyReadThrows \/ FlushThrows \/ FlushTraces
    \/ Respond
SpecEndpoint == InitEndpoint /\ [][NextEndpoint]_vars

\* ------------------------------------------------------------------------
\* The turn loop on the function's clock: boardAgent is deployed with
\* timeoutSeconds: 120 (part_005:60); the platform ends an invocation that is
\* still running at that time
\* ------------------------------------------------------------------------
ENDPOINT_TIMEOUT_MS == 120000

\* time the provider takes to answer (ms): fast, slow but inside the
\* per-turn limit, and beyond it
TimedLatencies == {1000, 50000, 90000}
TimedBlocks ==
    {ToolUse("createStickyNote", <<>>),
     ToolUse("moveObject", [objectId |-> "a", x |-> 300, y |-> 300])}
TimedResponses(n) ==
    {r \in Responses(n) :
        \A i \in 1..Len(r.content) :
           r.content[i].type = "tool_use" => r.content[i] \in TimedBlocks}

\* does the awaited race settle before the platform's limit
InTime(latency) == elapsedMs + Race(latency).elapsed <= ENDPOINT_TIMEOUT_MS

TimedResponse ==
    /\ pc = "call"
    /\ \E latency \in TimedLatencies :
       \E res \in TimedResponses(Min2(1, MaxActions - Len(allActions))) :
         /\ InTime(latency)
         /\ TurnResponseWith(latency, res)
         /\ elapsedMs' = elapsedMs + Race(latency).elapsed
    /\ UNCHANGED <<request, response, reqUserId, lateSeen, messages>>

TimedTimeout ==
    /\ pc = "call"
    /\ \E latency \in TimedLatencies :
         /\ InTime(latency)
         /\ TurnTimeoutWith(latency)
         /\ elapsedMs' = elapsedMs + Race(latency).elapsed
    /\ UNCHANGED <<request, response, reqUserId, lateSeen, messages>>

\* the platform's limit passes while the loop awaits a model call
FunctionTimeout ==
    /\ pc = "call"
    /\ \E latency \in TimedLatencies : ~InTime(latency)
    /\ pc' = "killed"
    /\ elapsedMs' = ENDPOINT_TIMEOUT_MS
    /\ UNCHANGED <<turn, boardState, allActions, pendingWrites, createdIds,
                   agentSummary, nextId, llmCalls, turnElapsed, timedOut,
                   nudges, lastStop, toolLog, batches, agentStore, agentClock,
                   fitOut, boardVars, presenceVars, runs, request, response,
                   reqUserId, lateSeen, messages>>

\* what the locals of the invocation become when the messages.create promise
\* that lost the race resolves: nothing awaits it, its value is dropped
\* (agent.ts:396-407)
LateResultProcessed(st, res, bs) == ProcessContent(st, res.content, 1, bs)
LateResult(st, res, bs) == st

\* the model's answer to the timed-out turn arrives
LateResponse ==
    /\ timedOut # <<>> /\ ~lateSeen
    /\ pc \in {"exit", "flush", "done", "failed"}
    /\ \E res \in TimedResponses(1) :
         LET st == LateResult(
                     [allActions |-> allActions, pendingWrites |-> pendingWrites,
                      createdIds |-> createdIds, nextId |-> nextId,
                      toolLog |-> toolLog, toolResults |-> <<>>],
                     res, boardState)
         IN  /\ allActions' = st.allActions
             /\ pendingWrites' = st.pendingWrites
             /\ createdIds' = st.createdIds
             /\ nextId' = st.nextId
             /\ toolLog' = st.toolLog
    /\ lateSeen' = TRUE
    /\ UNCHANGED <<pc, turn, boardState, agentSummary, llmCalls, turnElapsed,
                   timedOut, nudges, lastStop, batches, agentStore,
                   agentClock, fitOut, boardVars, presenceVars, runs,
                   request, response, reqUserId, elapsedMs, messages>>

NextTimed ==
    \/ TimedResponse \/ TimedTimeout \/ FunctionTimeout \/ LateResponse
    \/ CommitPlan \/ FlushTraces
SpecTimed == InitAgent /\ [][NextTimed]_vars

\* ------------------------------------------------------------------------
\* The conversation of the turn loop: the messages array that every
\* messages.create call sends (agent.ts:380-382, 463-500)
\* ------------------------------------------------------------------------
MaxConvActions == 3  \* tool_use blocks processed in one followed conversation

\* content given as a string is the one text block it stands for
TextContent(kind) == <<[type |-> "text", text |-> kind]>>
\* messages as callLLM starts it: the prompt (agent.ts:380-382)
FirstMessages == <<[role |-> "user", content |-> TextContent("prompt")]>>

ConvBlocks ==
    {ToolUse("createStickyNote", <<>>),
     ToolUse("moveObject", [objectId |-> "zz", x |-> 300, y |-> 300])}
\* the provider's answers; it gives every tool_use block an id of its own,
\* here the number of the call and the block's position
ConvResponses(n, call) ==
    {[stop_reason |-> r.stop_reason,
      content |-> [j \in 1..Len(r.content) |->
                     IF r.content[j].type = "tool_use"
                     THEN Overlay(r.content[j], [id |-> <<call, j>>])
                     ELSE r.content[j]]] :
       r \in {q \in Responses(n) :
                \A i \in 1..Len(q.content) :
                   q.content[i].type = "tool_use" => q.content[i] \in ConvBlocks}}

IsToolUse(b) == b.type = "tool_use"
IsToolResult(b) == b.type = "tool_result"
ToolUses(content) == SelectSeq(content, IsToolUse)

\* toolResults of one iteration (agent.ts:433, 454-458): one tool_result per
\* tool_use block, in the order of the blocks
ToolResultsReversed(content, results) ==
    LET uses == ToolUses(content)
    IN  [j \in 1..Len(uses) |->
           [type |-> "tool_result", tool_use_id |-> uses[Len(uses) + 1 - j].id,
            content |-> results[Len(uses) + 1 - j]]]
ToolResults(content, results) ==
    LET uses == ToolUses(content)
    IN  [j \in 1..Len(uses) |->
           [type |-> "tool_result", tool_use_id |-> uses[j].id,
            content |-> results[j]]]

\* what one iteration pushes to messages (agent.ts:463-500)
Pushed(res, toolResults, actions, t) ==
    IF res.stop_reason # "tool_use"
    THEN IF NoToolsOnTurn0(actions, t)
         THEN <<[role |-> "assistant", content |-> res.content],
                [role |-> "user", content |-> TextContent("must-call-tools")]>>
         ELSE <<>>
    ELSE <<[role |-> "assistant", content |-> res.content],
           [role |-> "user",
            content |-> IF Len(toolResults) = 1 /\ t < MAX_TURNS - 1
                        THEN toolResults \o TextContent("batch-more")
                        ELSE toolResults]>>

ConvResponse ==
    /\ pc = "call"
    /\ \E latency \in Latencies :
       \E res \in ConvResponses(Min2(MaxBlocks, MaxConvActions - Len(allActions)),
                                llmCalls) :
         LET st == ProcessContent(
                     [allActions |-> allActions, pendingWrites |-> pendingWrites,
                      createdIds |-> createdIds, nextId |-> nextId,
                      toolLog |-> toolLog, toolResults |-> <<>>],
                     res.content, 1, boardState)
         IN  /\ TurnResponseWith(latency, res)
             /\ messages' = messages
                  \o Pushed(res, ToolResults(res.content, st.toolResults),
                            st.allActions, turn)
    /\ UNCHANGED <<request, response, reqUserId, elapsedMs, lateSeen>>

InitConversation ==
    (\E bs \in AgentBoards : AgentStart(bs, "call")) /\ BoardIdle
    /\ PresenceIdle /\ runs = <<>>
    /\ request = <<>> /\ response = <<>> /\ reqUserId = "u1"
    /\ elapsedMs = 0 /\ lateSeen = FALSE /\ messages = FirstMessages
NextConversation == ConvResponse \/ TurnTimeout \/ CommitPlan \/ FlushTraces
SpecConversation == InitConversation /\ [][NextConversation]_vars

\* ------------------------------------------------------------------------
\* Presence
\* ------------------------------------------------------------------------
InitPresence == AgentIdle /\ BoardIdle /\ PresenceIdle /\ runs = <<>> /\ HttpIdle

\* sessions coming and going over 80 s, on the 20 s grid of the keepalive
NextPresence ==
    \/ \E s \in Sessions : Mount(s)
    \/ \E s \in Sessions : Unmount(s)
    \/ \E s \in Sessions : Crash(s)
    \/ \E s \in Sessions : Keepalive(s)
    \/ \E s \in Viewers : PresenceSnapshot(s)
    \/ Tick
SpecPresence == InitPresence /\ [][NextPresence]_vars

\* pointer moves of two sessions over 80 ms, on a 20 ms grid
NextCursor ==
    \/ \E s \in Sessions : Mount(s)
    \/ \E s \in Movers, pos \in CursorPositions : updateCursor(s, pos)
    \/ CursorWait
SpecCursor == InitPresence /\ [][NextCursor]_vars

\* ------------------------------------------------------------------------
\* Properties
\* ------------------------------------------------------------------------
\* ids a logged tool call refers to
ReferencedIds(e) ==
    IF e.tool \in {"moveObject", "resizeObject", "updateText", "changeColor",
                   "updateConnectorStyle", "deleteObject"}
    THEN {e.input.objectId}
    ELSE IF e.tool = "createConnector" THEN {e.input.fromId, e.input.toId}
    ELSE {}
\* length of the pending plan before the i-th logged call
PlanLenBefore(i) == IF i = 1 THEN 0 ELSE toolLog[i - 1].planLen

\* C1: a tool call that references an id outside K (snapshot ids plus ids
\* created earlier in the invocation) appends no write to the pending plan
\* and returns an error string
C1_UnknownIdRejected ==
    \A i \in 1..Len(toolLog) :
      LET e == toolLog[i]
      IN  (ReferencedIds(e) \ e.known # {}) =>
            /\ ~e.wrote
            /\ e.planLen = PlanLenBefore(i)
            /\ e.result[1] = "Error"
            /\ e.result[2] \in ReferencedIds(e) \ e.known
\* a call naming a fabricated id is rejected after a write was planned
C1_Witness ==
    \E i \in 1..Len(toolLog) :
      /\ ReferencedIds(toolLog[i]) \ toolLog[i].known # {}
      /\ PlanLenBefore(i) > 0
      /\ toolLog[i].result[1] = "Error"

\* the last write of the batch to each id it names
LastWriteTo(writes, id) ==
    writes[SetMax({i \in 1..Len(writes) : WriteId(writes[i]) = id})]
\* the committed batch is in the store as a whole: a deleted id is gone, a
\* written id carries every field of its last write
BatchInStore(writes, st, now) ==
    \A id \in {WriteId(writes[i]) : i \in 1..Len(writes)} :
      LET w == LastWriteTo(writes, id)
      IN  IF w.type = "delete" THEN id \notin DOMAIN st
          ELSE /\ id \in DOMAIN st
               /\ \A f \in DOMAIN w.data : st[id][f] = Resolve(w.data, now)[f]

\* C2: no store write while the turn loop runs; after the loop all pending
\* writes (tool writes and auto-fit writes) go out in at most one atomic
\* batch, and no LLM call follows the commit
C2_SingleBatchAfterLoop ==
    /\ [](/\ pc = "call" => (batches = <<>> /\ agentStore = StoreOf(boardState))
          /\ Len(batches) <= 1
          /\ pc \in {"flush", "done"} =>
               /\ batches = IF pendingWrites = <<>> THEN <<>>
                            ELSE <<pendingWrites>>
               /\ Len(pendingWrites) >=
                    Cardinality({i \in 1..Len(toolLog) : toolLog[i].wrote})
               /\ BatchInStore(pendingWrites, agentStore, agentClock))
    /\ [][/\ batches' # batches =>
               /\ pc = "exit" /\ pc' = "flush"
               /\ agentClock' = agentClock + 1
               /\ \A id \in DOMAIN agentStore \cap DOMAIN agentStore' :
                    (\A i \in 1..Len(pendingWrites') :
                       WriteId(pendingWrites'[i]) # id)
                      => agentStore'[id] = agentStore[id]
          /\ pc \in {"flush", "done"} =>
               (llmCalls' = llmCalls /\ agentStore' = agentStore)]_vars
\* a plan of two tool writes was committed after a loop of several turns
C2_Witness ==
    /\ pc = "done" /\ llmCalls >= 2
    /\ Len(batches) = 1 /\ Len(batches[1]) >= 2

\* committed updateDoc calls to id that a list of version v contains
UpdatesIn(id, v) ==
    {i \in 1..Len(updateLog) :
       updateLog[i].id = id /\ updateLog[i].ok /\ updateLog[i].ver <= v}

\* C3: once the concurrent updates of two clients to the same fields of an
\* object have committed and reached a subscriber, the subscriber holds, in
\* every field they wrote, the value of the update that committed last; so
\* all such subscribers hold the same value, no mix and no third value
C3_LaterCommitWins ==
    \A c \in Clients : \A id \in Ids(objects[c]) :
      LET ups == UpdatesIn(id, shown[c])
      IN  ups # {} =>
            LET e == updateLog[SetMax(ups)]
            IN  \A f \in DOMAIN e.data :
                  objects[c][id][f] = Resolve(e.data, e.ver)[f]
\* two clients dragged the same object without having seen each other's
\* write, both writes committed and both clients received them
C3_Witness ==
    \E i, j \in 1..Len(updateLog) :
      /\ i < j
      /\ updateLog[i].id = updateLog[j].id /\ updateLog[i].by # updateLog[j].by
      /\ updateLog[i].ok /\ updateLog[j].ok
      /\ updateLog[j].seen < updateLog[i].ver
      /\ \A c \in Clients :
           /\ shown[c] >= updateLog[j].ver
           /\ updateLog[j].id \in Ids(objects[c])
           /\ objects[c][updateLog[j].id].x = updateLog[j].data.x

\* C4: per subscriber and object the list follows commit order: it never
\* replaces a version of an object by an older one and never shows an object
\* again that the list had already dropped, unless it was re-created
C4_ListFollowsCommitOrder ==
    [][\A c \in Clients :
         /\ \A id \in Ids(objects[c]) \cap Ids(objects'[c]) :
              objects'[c][id].updatedAt >= objects[c][id].updatedAt
         /\ \A id \in Ids(objects'[c]) \ Ids(objects[c]) :
              objects'[c][id].updatedAt > shown[c]]_vars

\* C5: when the LLM call of a turn times out, a non-empty pending plan is
\* committed as it is (after the auto-fit pass) with the summary marked
\* partial; with nothing planned the invocation fails and commits nothing
C5_TimeoutOutcome ==
    timedOut # <<>> =>
      IF timedOut[1] # <<>>
      THEN /\ pc \in {"exit", "flush", "done"}
           /\ "partial" \in Range(agentSummary)
           /\ pc \in {"flush", "done"} =>
                batches = <<fitFramesToContent(timedOut[1], boardState).writes>>
      ELSE pc = "failed" /\ batches = <<>>

\* C6: an invocation makes at most MAX_TURNS LLM calls, none awaited longer
\* than PER_TURN_TIMEOUT_MS, and after the MAX_TURNS-th call the loop is left
C6_BoundedTurns ==
    /\ llmCalls <= MAX_TURNS
    /\ turnElapsed <= PER_TURN_TIMEOUT_MS
    /\ pc = "call" => (llmCalls = turn /\ turn < MAX_TURNS)
\* the loop ran MAX_TURNS turns without a timeout and was left
C6_Witness ==
    pc = "exit" /\ llmCalls = MAX_TURNS /\ turn = MAX_TURNS /\ timedOut = <<>>

\* C7: a UI delete issues deletes for exactly the selected objects and the
\* connectors of the deleter's list with an end at a selected object; a
\* delete that commits removes its document and changes no other
C7_DeleteCascadeExact ==
    /\ [](\A k \in 1..Len(lastDelete) :
            LET d == lastDelete[k]
                ids == {d.writes[i].id : i \in 1..Len(d.writes)}
            IN  /\ \A i \in 1..Len(d.writes) : d.writes[i].op = "delete"
                /\ ids = d.selected \cup
                     {c \in DOMAIN d.list :
                        /\ d.list[c].type = "connector"
                        /\ \/ d.list[c].connectedFrom \in d.selected
                           \/ d.list[c].connectedTo \in d.selected})
    /\ [][\A c \in Clients :
            (/\ inflight[c] # <<>>
             /\ Head(inflight[c]).op = "delete"
             /\ inflight'[c] = Tail(inflight[c]))
              => store' = [i \in (DOMAIN store) \ {Head(inflight[c]).id}
                             |-> store[i]]]_vars
\* a sticky was deleted together with the connector that ends at it, and
\* the sticky at the connector's other end is still in the store, unchanged
C7_Witness ==
    /\ lastDelete # <<>>
    /\ lastDelete[1].selected = {"o2"}
    /\ {lastDelete[1].writes[i].id : i \in 1..Len(lastDelete[1].writes)}
         = {"o2", "c1"}
    /\ DOMAIN store = {"o1"} /\ store["o1"] = InitialStore["o1"]

\* a connector of the list with an end that is not in the list
Dangling(list, id) ==
    /\ list[id].type = "connector"
    /\ \/ "connectedFrom" \notin DOMAIN list[id]
       \/ "connectedTo" \notin DOMAIN list[id]
       \/ list[id].connectedFrom \notin DOMAIN list
       \/ list[id].connectedTo \notin DOMAIN list

\* C8: a connector with an end absent from the viewer's list is drawn
\* neither on the canvas nor in the board preview
C8_DanglingNotRendered ==
    /\ \A c \in Clients : \A id \in Ids(objects[c]) :
         Dangling(objects[c], id) => id \notin canvasConn[c]
    /\ \A k \in 1..Len(preview) : \A id \in DOMAIN preview[k] :
         Dangling(preview[k], id) => id \notin previewConn
\* a canvas and the preview both hold a connector whose end is gone, while
\* another canvas still draws it
C8_Witness ==
    /\ \E c \in Clients : \E id \in Ids(objects[c]) : Dangling(objects[c], id)
    /\ \E c \in Clients : canvasConn[c] # {}
    /\ preview # <<>>
    /\ \E id \in DOMAIN preview[1] :
         Dangling(preview[1], id) /\ preview[1][id].type = "connector"
    /\ \E id \in DOMAIN preview[1] : preview[1][id].type # "connector"

\* C9: after the auto-fit pass every child assigned to a frame lies inside
\* the frame's final rectangle with the margins 30 / 70 / 30, child frames
\* included
C9_ChildrenInsideFrame ==
    \A fid \in DOMAIN fitOut.children : \A cid \in fitOut.children[fid] :
      LET f == MapGet(fitOut.after, fid)
          cb == getBBox(MapGet(fitOut.after, cid))
      IN  /\ cb.left >= f.x + PADDING_SIDE
          /\ cb.right <= f.x + f.width - PADDING_SIDE
          /\ cb.top >= f.y + PADDING_TOP
          /\ cb.bottom <= f.y + f.height - PADDING_BOTTOM

\* C10: an update of a document that does not exist succeeds and leaves a
\* document behind, for a client's updateObject as for a merge write of the
\* agent's batch
C10_UpdateCreatesSkeleton ==
    /\ \A i \in 1..Len(updateLog) :
         ~updateLog[i].existed => (updateLog[i].ok /\ updateLog[i].present)
    /\ \A k \in 1..Len(batches) : \A i \in 1..Len(batches[k]) :
         LastWriteTo(batches[k], WriteId(batches[k][i])).type = "update"
           => WriteId(batches[k][i]) \in DOMAIN agentStore

\* C11: every committed write that changes fields of an object carries
\* updatedAt = the server commit time and lastEditedBy = the user who caused
\* it: writes of clients, tool writes of the agent, auto-fit writes
C11_WritesStamped ==
    /\ \A k \in 1..Len(batches) : \A i \in 1..Len(batches[k]) :
         LET w == batches[k][i]
         IN  w.type # "delete" =>
               /\ Nullish(w.data, "updatedAt", "") = ServerTimestamp
               /\ Nullish(w.data, "lastEditedBy", "") = UserId
    /\ \A c \in Clients : \A i \in 1..Len(inflight[c]) :
         LET w == inflight[c][i]
         IN  w.op # "delete" =>
               /\ Nullish(w.data, "updatedAt", "") = ServerTimestamp
               /\ Nullish(w.data, "lastEditedBy", "") = w.by

C13_StaleNotShown ==
    \A s \in Viewers : \A u \in PUsers \ {Owner(s)} :
      (/\ sess[s] = "open" /\ ~pending[s]
       /\ allUsers[s][u].there
       /\ nowMs - allUsers[s][u].lastSeen > STALE_MS)
        => (u \notin activeUsers(s) /\ u \notin otherUsers(s))

\* C14: a keepalive tick of an open session leaves the user's entry in the
\* store with lastSeen = the time of the tick, also when the entry had been
\* removed
C14_KeepaliveRestores ==
    [][\A s \in Sessions :
         (sess[s] = "open" /\ sess'[s] = "open" /\ kaDue'[s] # kaDue[s])
           => (/\ presence'[Owner(s)].there
               /\ presence'[Owner(s)].lastSeen = nowMs')]_vars

\* C15: an entry that none of its owner's sessions refreshes any more is not
\* in the store later than STALE_STORE (60 s) plus one reaper period (10 s)
\* after its lastSeen
C15_OrphanReaped ==
    \A u \in PUsers :
      (/\ presence[u].there
       /\ \A s \in Sessions : Owner(s) = u => sess[s] # "open")
        => nowMs - presence[u].lastSeen <= STALE_STORE_MS + REAPER_PERIOD_MS

\* C16: an updateCursor call is admitted only THROTTLE_MS (60 ms) or more
\* after the session's last admitted one; a dropped call leaves the store as
\* it is, and the cursor of an entry only ever changes to the position of a
\* call admitted in that step (or to the origin on a mount)
C16_CursorThrottle ==
    [][/\ \A s \in Sessions :
            /\ lastSent'[s] # lastSent[s]
                 => lastSent'[s] - lastSent[s] >= THROTTLE_MS
            /\ (lastMove'[s] # lastMove[s] /\ ~lastMove'[s].admitted)
                 => (presence' = presence /\ lastSent' = lastSent)
       /\ \A u \in PUsers :
            (presence[u].there /\ presence'[u].there
             /\ presence'[u].cursor # presence[u].cursor)
              => \E s \in Sessions :
                   /\ Owner(s) = u
                   /\ \/ sess[s] = "new" /\ sess'[s] = "open"
                      \/ /\ lastMove'[s].admitted
                         /\ lastMove'[s].pos = presence'[u].cursor
                         /\ lastSent'[s] = nowMs
                         /\ nowMs - lastSent[s] >= THROTTLE_MS]_vars
\* a1 has had a second call admitted (60 ms or more after its first); b1's
\* last call was dropped and its position is not in the store
C16_Witness ==
    /\ lastMove["a1"].admitted /\ lastMove["a1"].prev >= StartTime
    /\ lastSent["a1"] - lastMove["a1"].prev >= THROTTLE_MS
    /\ ~lastMove["b1"].admitted /\ lastMove["b1"].prev >= StartTime
    /\ nowMs > lastSent["b1"]
    /\ presence["bob"].there
    /\ presence["bob"].cursor # lastMove["b1"].pos

\* C17: after an admitted cursor write of a session the user's entry has a
\* lastSeen no older than that write
C17_CursorWriteStampsLastSeen ==
    \A s \in Sessions :
      (sess[s] = "open" /\ lastSent[s] > 0 /\ presence[Owner(s)].there)
        => presence[Owner(s)].lastSeen >= lastSent[s]

\* C18: once the batch of a plan with an accepted deleteObject of o is
\* committed, the store holds no connector whose connectedFrom or connectedTo
\* is o
C18_AgentDeleteCascades ==
    pc \in {"flush", "done"} =>
      \A i \in 1..Len(toolLog) :
        LET e == toolLog[i]
        IN  (e.tool = "deleteObject" /\ e.wrote) =>
              \A id \in DOMAIN agentStore :
                Nullish(agentStore[id], "type", "") = "connector" =>
                  /\ Nullish(agentStore[id], "connectedFrom", "")
                       # e.input.objectId
                  /\ Nullish(agentStore[id], "connectedTo", "")
                       # e.input.objectId

\* the style an object has in the merged state before the i-th logged call:
\* the snapshot with the writes planned so far applied to it
StyleBeforeCall(i) ==
    LET st == ApplyBatch(StoreOf(boardState),
                         SubSeq(pendingWrites, 1, PlanLenBefore(i)), 1, 0)
        oid == toolLog[i].input.objectId
    IN  IF oid \in DOMAIN st THEN Nullish(st[oid], "style", <<>>) ELSE <<>>

\* C19: the write planned by an accepted updateConnectorStyle call that names
\* only one of lineStyle / arrowHead is an update of that connector which
\* touches style and the two stamps only, and whose other style field is the
\* value the connector had before the call - in the snapshot or as created or
\* restyled earlier in the invocation
C19_OtherStyleFieldKept ==
    pc = "plan" =>
      \A i \in 1..Len(toolLog) :
        LET e == toolLog[i]
            w == pendingWrites[e.planLen]
            before == StyleBeforeCall(i)
        IN  (/\ e.tool = "updateConnectorStyle" /\ e.wrote
             /\ "lineStyle" \in DOMAIN before /\ "arrowHead" \in DOMAIN before)
              => /\ w.type = "update" /\ WriteId(w) = e.input.objectId
                 /\ DOMAIN w.data = {"style", "lastEditedBy", "updatedAt"}
                 /\ "lineStyle" \notin DOMAIN e.input
                      => w.data.style.lineStyle = before.lineStyle
                 /\ "arrowHead" \notin DOMAIN e.input
                      => w.data.style.arrowHead = before.arrowHead

\* the last write of a sequence of writes to id is not a delete
KeptBy(writes, id) ==
    LET hits == {k \in 1..Len(writes) : WriteId(writes[k]) = id}
    IN  hits # {} /\ writes[SetMax(hits)].type # "delete"

\* C20: two invocations running at once share nothing: each tests ids
\* against the snapshot and the ids it created itself, plans and commits
\* writes to those only, and once both have committed every object either of
\* them created (and did not itself delete) is in the store
C20_InvocationsIndependent ==
    /\ \A i \in Invocations :
         /\ \A k \in 1..Len(runs[i].toolLog) :
              LET e == runs[i].toolLog[k]
              IN  /\ e.known \subseteq SnapshotIds(boardState) \cup OwnIds(i)
                  /\ (ReferencedIds(e) \ (SnapshotIds(boardState) \cup OwnIds(i))
                        # {}) => (~e.wrote /\ e.result[1] = "Error")
         /\ runs[i].createdIds \subseteq OwnIds(i)
         /\ \A k \in 1..Len(runs[i].batch) :
              WriteId(runs[i].batch[k])
                \in SnapshotIds(boardState) \cup OwnIds(i)
    /\ (\A i \in Invocations : runs[i].pc = "done")
         => \A i \in Invocations : \A id \in runs[i].createdIds :
              KeptBy(runs[i].batch, id)
                => /\ id \in DOMAIN agentStore
                   /\ agentStore[id].updatedAt \in 1..agentClock
\* both invocations have committed a batch that created an object, and the
\* second was refused an id the first had created
C20_Witness ==
    /\ \A i \in Invocations :
         /\ runs[i].pc = "done" /\ runs[i].createdIds # {}
         /\ runs[i].createdIds \subseteq DOMAIN agentStore
    /\ agentClock = 2
    /\ \E k \in 1..Len(runs["i2"].toolLog) :
         LET e == runs["i2"].toolLog[k]
         IN  /\ e.tool = "deleteObject" /\ e.input.objectId = "n1"
             /\ e.result[1] = "Error"

\* C21: a create never lands on an id in use: the server leaves the store as
\* it is when a client's setDoc names an id that is in the store, and the id
\* of every create the agent plans is neither in the snapshot nor the id of an
\* earlier create of the plan
C21_CreateOnUnusedId ==
    /\ [](\A k \in 1..Len(pendingWrites) :
            pendingWrites[k].type = "set" =>
              /\ WriteId(pendingWrites[k]) \notin SnapshotIds(boardState)
              /\ \A j \in 1..(k - 1) :
                   pendingWrites[j].type = "set" =>
                     WriteId(pendingWrites[j]) # WriteId(pendingWrites[k]))
    /\ [][\A c \in Clients :
            (/\ inflight[c] # <<>> /\ inflight'[c] = Tail(inflight[c])
             /\ Head(inflight[c]).op = "set"
             /\ Head(inflight[c]).id \in DOMAIN store)
              => store' = store]_vars

\* the tools of the agent and the object types of the board
ToolNames ==
    {"createStickyNote", "createText", "createShape", "createFrame",
     "createConnector", "moveObject", "resizeObject", "updateText",
     "changeColor", "updateConnectorStyle", "deleteObject", "getBoardState"}
ObjectTypes ==
    {"sticky", "rectangle", "circle", "line", "text", "frame", "connector"}

\* C22: a call of an unknown tool, and a createShape whose type is not an
\* object type, append no write to the plan and return an error
C22_BadToolOrTypeRejected ==
    \A i \in 1..Len(toolLog) :
      LET e == toolLog[i]
      IN  (\/ e.tool \notin ToolNames
           \/ /\ e.tool = "createShape"
              /\ Nullish(e.input, "type", "rectangle") \notin ObjectTypes)
            => /\ ~e.wrote
               /\ e.planLen = PlanLenBefore(i)
               /\ e.result[1] \in {"Error", "Unknown tool"}

\* C23: in the store, after the batch, every circle has a radius > 0 and
\* every sticky, rectangle, text and frame has width > 0 and height > 0
C23_PositiveSizes ==
    pc \in {"flush", "done"} =>
      \A id \in DOMAIN agentStore :
        LET o == agentStore[id]
            t == Nullish(o, "type", "")
        IN  /\ (t = "circle" /\ "radius" \in DOMAIN o) => o.radius > 0
            /\ (/\ t \in {"sticky", "rectangle", "text", "frame"}
                /\ "width" \in DOMAIN o /\ "height" \in DOMAIN o)
                 => (o.width > 0 /\ o.height > 0)

\* every document that a step wrote (it is new or differs from what was
\* stored) carries the commit time `at` of that step as updatedAt, and no
\* stored updatedAt goes down
StampedBy(old, new, at) ==
    \A id \in DOMAIN new :
      /\ (id \notin DOMAIN old \/ new[id] # old[id])
           => Nullish(new[id], "updatedAt", -1) = at
      /\ id \in DOMAIN old
           => Nullish(new[id], "updatedAt", -1)
                >= Nullish(old[id], "updatedAt", -1)

\* C24: over the committed writes the updatedAt of an object never decreases
\* and is the commit time of the last write that changed the object, never a
\* value a writer chose - for writes of clients and of the agent's batch
C24_UpdatedAtIsCommitTime ==
    [][/\ StampedBy(store, store', clock')
       /\ StampedBy(agentStore, agentStore', agentClock')]_vars

\* the bearer token of a request, "" when the header carries none
BearerToken(req) ==
    IF startsWithBearer(req.authorization) THEN req.authorization.rest ELSE ""
InvocationWrites ==
    {pendingWrites[k] : k \in 1..Len(pendingWrites)}
      \cup UNION {Range(batches[b]) : b \in 1..Len(batches)}

\* C25: runBoardAgent runs only for a POST whose bearer token verifies; the
\* user id stamped on the invocation's writes is the uid of that token,
\* whatever userId the body carries; a request whose token is missing or
\* does not verify is never answered 200 or 500, is answered 401 when it is
\* a POST, and causes no tool processing and no store write
C25_UidFromVerifiedToken ==
    LET tok == BearerToken(request)
    IN  /\ pc # "idle" =>
              /\ request.method = "POST"
              /\ tok \in IssuedTokens
              /\ reqUserId = verifyIdToken(tok).uid
        /\ \A w \in InvocationWrites :
              (w.type # "delete" /\ "lastEditedBy" \in DOMAIN w.data)
                => w.data.lastEditedBy = verifyIdToken(tok).uid
        /\ tok \notin IssuedTokens =>
              /\ pc = "idle" /\ toolLog = <<>> /\ llmCalls = 0
              /\ batches = <<>>
              /\ \E bs \in AgentBoards : agentStore = StoreOf(bs)
              /\ (response # <<>> /\ request.method = "POST")
                    => response.status = 401
              /\ response # <<>> => response.status \in {204, 405, 401}
C25_Witness ==
    /\ Nullish(request.body, "userId", "") = "u2"
    /\ BearerToken(request) = "tokU1"
    /\ batches # <<>>
    /\ \E k \in 1..Len(batches[1]) :
         /\ batches[1][k].type = "set"
         /\ batches[1][k].data.lastEditedBy = "u1"
    /\ response # <<>> /\ response.status = 200

\* the answer the listed order of checks gives a request, given whether the
\* agent threw
AnswerInOrder(req, threw) ==
    IF req.method = "OPTIONS" THEN 204
    ELSE IF req.method # "POST" THEN 405
    ELSE IF BearerToken(req) \notin IssuedTokens THEN 401
    ELSE IF Falsy(req.body, "boardId") \/ Falsy(req.body, "command") THEN 400
    ELSE IF threw THEN 500
    ELSE 200

\* C26: OPTIONS gets 204, another non-POST method 405, a missing or invalid
\* bearer token 401, a missing boardId or command 400, an exception from the
\* agent 500 with an error string, the checks taken in that order; one
\* response per request
C26_StatusInOrder ==
    /\ [](response # <<>> =>
            /\ response.status = AnswerInOrder(request, pc = "failed")
            /\ response.status = 500 => response.json = "error")
    /\ [][response # <<>> => response' = response]_vars
C26_Witness ==
    /\ request.method = "POST" /\ request.body = <<>>
    /\ request.authorization = <<>>
    /\ response # <<>> /\ response.status = 401

\* C30: an answer of 500 means that no write of the invocation was committed
C30_Error500MeansNoCommit ==
    (response # <<>> /\ response.status = 500) => batches = <<>>

\* the i-th processed call was rejected for an id that is neither in the
\* snapshot nor created by the invocation
RejectedUnknownId(i) ==
    /\ toolLog[i].result[1] = "Error"
    /\ toolLog[i].result[2] \notin toolLog[i].known

\* C27: a call rejected for an unknown id is recorded exactly once in the
\* actions list, without an objectId; its tool result is the error text; it
\* appends no write; the step that processes it leaves the loop running or
\* exits it normally, and a request that fails has processed no call at all
C27_RejectionRecordedNotFatal ==
    /\ [](/\ Len(allActions) = Len(toolLog)
          /\ \A i \in 1..Len(toolLog) :
               RejectedUnknownId(i) =>
                 /\ allActions[i] = [tool |-> toolLog[i].tool,
                                     input |-> toolLog[i].input]
                 /\ toolLog[i].result
                      = <<"Error", toolLog[i].result[2], "not found">>
                 /\ ~toolLog[i].wrote
                 /\ toolLog[i].planLen = PlanLenBefore(i)
          /\ pc = "failed" => toolLog = <<>>)
    /\ [][Len(toolLog') > Len(toolLog) => pc' \in {"call", "exit"}]_vars
C27_Witness ==
    /\ pc = "done" /\ Len(toolLog) >= 2 /\ turn >= 1
    /\ RejectedUnknownId(1)
    /\ toolLog[2].wrote
    /\ batches # <<>>

\* a step in which a response of the model was processed
ResponseStep == llmCalls' = llmCalls + 1 /\ timedOut' = timedOut
\* a step that pushes the nudge
NudgeStep == nudges' = nudges + 1

\* C28: the nudge is sent at most once per invocation, only in turn 0 and only
\* when the model stopped with no tool call made; any other response whose
\* stop_reason is not tool_use ends the loop, and no LLM call follows
C28_NudgeOnceOnlyTurn0 ==
    /\ [](nudges <= 1)
    /\ [][NudgeStep =>
            /\ ResponseStep /\ turn = 0 /\ nudges = 0
            /\ lastStop' # "tool_use"
            /\ allActions' = <<>> /\ toolLog' = <<>>
            /\ pc' = "call" /\ turn' = 1]_vars
    /\ [][(ResponseStep /\ lastStop' # "tool_use" /\ ~NudgeStep)
            => (pc' = "exit" /\ turn' = turn)]_vars
    /\ [][(pc \in {"exit", "flush", "done"}) => (llmCalls' = llmCalls)]_vars
\* after a nudge the model called tools, stopped, and the run committed
C28_Witness ==
    /\ nudges = 1 /\ pc = "done" /\ llmCalls = 3
    /\ lastStop = "end_turn" /\ batches # <<>>

\* connectors of a store that have id as an end
ConnectorsAt(st, id) ==
    {k \in DOMAIN st :
        /\ Nullish(st[k], "type", "") = "connector"
        /\ id \in {Nullish(st[k], "connectedFrom", ""),
                   Nullish(st[k], "connectedTo", "")}}

\* C29: an object that was created and then deleted stays deleted when the
\* writes that were in flight at the delete settle: a client update issued
\* before the delete, or the batch of an invocation planned from a snapshot
\* that still held the object, brings back neither a document under its id
\* nor a connector that references it
C29_DeleteLeavesNoTrace ==
    /\ [][\A c \in Clients :
            (/\ inflight[c] # <<>> /\ inflight'[c] = Tail(inflight[c])
             /\ Head(inflight[c]).op = "update"
             /\ Head(inflight[c]).id \notin DOMAIN store)
              => Head(inflight[c]).id \notin DOMAIN store']_vars
    /\ [][\A id \in SnapshotIds(boardState) :
            (pc = "exit" /\ pc' = "flush" /\ id \notin DOMAIN agentStore)
              => /\ id \notin DOMAIN agentStore'
                 /\ ConnectorsAt(agentStore', id)
                      \subseteq ConnectorsAt(agentStore, id)]_vars

\* positions of the committed batch that delete id
DeletesIn(batch, id) ==
    {k \in 1..Len(batch) : batch[k].type = "delete" /\ WriteId(batch[k]) = id}

\* C31: once a tool call of an invocation has deleted an id, no later write
\* of the plan (tool write or auto-fit write) goes to that id, and after the
\* commit the store holds no document under it
C31_DeletedIdNotWrittenAgain ==
    (pc \in {"flush", "done"} /\ batches # <<>>) =>
       \A id \in {WriteId(batches[1][k]) : k \in 1..Len(batches[1])} :
         \A d \in DeletesIn(batches[1], id) :
           /\ \A j \in (d + 1)..Len(batches[1]) :
                WriteId(batches[1][j]) = id => batches[1][j].type = "delete"
           /\ id \notin DOMAIN agentStore

\* C32: an invocation that has planned a write is never ended by the
\* function's time limit while its loop is still running
C32_PlanReachesCommit ==
    pc = "killed" => pendingWrites = <<>>

\* C36: the answer to a timed-out turn adds no action and no write; what is
\* committed after the timeout is the plan as it was when the timeout fired
\* (after the auto-fit pass)
C36_LateResponseIgnored ==
    /\ [](timedOut # <<>> =>
            /\ pc \in {"exit", "failed"} => pendingWrites = timedOut[1]
            /\ Len(toolLog) = Len(allActions)
            /\ (pc \in {"flush", "done"} /\ timedOut[1] # <<>>) =>
                  (/\ batches # <<>>
                   /\ batches[1]
                        = fitFramesToContent(timedOut[1], boardState).writes)
            /\ (pc \in {"flush", "done"} /\ timedOut[1] = <<>>) =>
                  batches = <<>>)
    /\ [][lateSeen' # lateSeen =>
            (allActions' = allActions /\ pendingWrites' = pendingWrites
             /\ agentStore' = agentStore)]_vars
\* the late answer arrived before the commit, and the batch is the plan of
\* the timeout
C36_Witness ==
    /\ lateSeen /\ pc = "done" /\ timedOut # <<>>
    /\ batches # <<>> /\ Len(timedOut[1]) >= 1

\* rectangle `outer` contains rectangle `inner`, edge by edge
RectContains(outer, inner) ==
    /\ outer.x <= inner.x
    /\ outer.y <= inner.y
    /\ outer.x + outer.width >= inner.x + inner.width
    /\ outer.y + outer.height >= inner.y + inner.height
FramesBeforeFit == FrameEntries(fitOut.before)

\* C33: the auto-fit pass never shrinks a frame and moves no edge inward:
\* every frame of the merged state is still a frame after the pass and its
\* rectangle after the pass contains its rectangle before
C33_FramesOnlyGrow ==
    pc \in {"flush", "done"} =>
       \A i \in 1..Len(FramesBeforeFit) :
          LET f == FramesBeforeFit[i]
          IN  /\ MapHas(fitOut.after, f.id)
              /\ MapGet(fitOut.after, f.id).type = "frame"
              /\ RectContains(MapGet(fitOut.after, f.id), f)
\* one frame grew at its right and bottom edge only, one had its left or top
\* edge moved outward
C33_Witness ==
    /\ pc \in {"flush", "done"}
    /\ \E i \in 1..Len(FramesBeforeFit) :
          LET f == FramesBeforeFit[i]
              g == MapGet(fitOut.after, f.id)
          IN  /\ g.x = f.x /\ g.y = f.y
              /\ g.width > f.width /\ g.height > f.height
    /\ \E i \in 1..Len(FramesBeforeFit) :
          LET f == FramesBeforeFit[i]
              g == MapGet(fitOut.after, f.id)
          IN  g.x < f.x \/ g.y < f.y

\* the frames of fitOut.children that hold object id
FramesHolding(id) == {fid \in DOMAIN fitOut.children : id \in fitOut.children[fid]}

\* the position, in the frame list, of the frame the two phases as stated
\* choose for object c; 0 when they choose none.  A rectangle contains a
\* point when the point is on or past its left and top edge and before its
\* right and bottom edge.
StatedFrame(c, F) ==
    LET cb == getBBox(c)
        in1 == {i \in 1..Len(F) :
                  /\ F[i].id # c.id
                  /\ F[i].x <= cb.left /\ cb.left < F[i].x + F[i].width
                  /\ F[i].y <= cb.top /\ cb.top < F[i].y + F[i].height}
        small == {i \in in1 : \A j \in in1 : Area(F[i]) <= Area(F[j])}
        Gap(i) == GapX(F[i], cb) + GapY(F[i], cb)
        in2 == {i \in 1..Len(F) :
                  /\ GapX(F[i], cb) <= cb.right - cb.left
                  /\ GapY(F[i], cb) <= cb.bottom - cb.top}
        near == {i \in in2 : \A j \in in2 : Gap(i) <= Gap(j)}
    IN  IF in1 # {} THEN SetMin(small)
        ELSE IF c.type # "frame" /\ in2 # {} THEN SetMin(near)
        ELSE 0

RectOf(e) == [x |-> e.x, y |-> e.y, width |-> e.width, height |-> e.height]
\* id is a frame of the merged state whose rectangle the pass changed, and r
\* is its rectangle after the pass
ResizedFrame(fit, id, r) ==
    /\ MapHas(fit.before, id) /\ MapGet(fit.before, id).type = "frame"
    /\ r = RectOf(MapGet(fit.after, id))
    /\ r # RectOf(MapGet(fit.before, id))
\* the plan `post` is the plan `pre` after an auto-fit pass as C37 allows it
OnlyFrameRects(pre, post, fit) ==
    /\ Len(post) >= Len(pre)
    /\ \A k \in 1..Len(pre) :
         \/ post[k] = pre[k]
         \/ /\ pre[k].type # "delete" /\ post[k].type = pre[k].type
            /\ post[k].path = pre[k].path
            /\ \E r \in {RectOf(fit.after[n]) : n \in 1..Len(fit.after)} :
                 /\ ResizedFrame(fit, WriteId(pre[k]), r)
                 /\ post[k].data = Overlay(pre[k].data, r)
    /\ \A k \in (Len(pre) + 1)..Len(post) :
         /\ post[k].type = "update"
         /\ DOMAIN post[k] = {"type", "path", "data"}
         /\ post[k].path = PathOf(WriteId(post[k]))
         /\ ResizedFrame(fit, WriteId(post[k]), post[k].data)
         /\ \A j \in (Len(pre) + 1)..Len(post) :
              WriteId(post[j]) = WriteId(post[k]) => j = k
    /\ \A k \in 1..Len(post) :
         (k > Len(pre) \/ post[k] # pre[k]) =>
            DeletesIn(pre, WriteId(post[k])) = {}
              \/ MapHas(fit.before, WriteId(post[k]))

\* C37: the auto-fit pass changes the plan only by setting x, y, width and
\* height in a frame's write or by appending one resize write per frame; the
\* writes of other objects keep their place and content, a frame the plan
\* deleted gets no write, and a frame is written only when its rectangle
\* changed
C37_FitTouchesOnlyFrameRects ==
    [][(pc = "plan" /\ pc' = "flush")
         => OnlyFrameRects(pendingWrites, pendingWrites', fitOut')]_vars
\* the pass set the rectangle in the set write of a frame the plan created
\* and appended a resize write for a frame of the snapshot
C37_Witness ==
    /\ pc = "flush" /\ batches # <<>>
    /\ toolLog # <<>> /\ Len(pendingWrites) > toolLog[Len(toolLog)].planLen
    /\ \E k \in 1..toolLog[Len(toolLog)].planLen :
         /\ pendingWrites[k].type = "set"
         /\ pendingWrites[k].data.type = "frame"
         /\ RectOf(pendingWrites[k].data)
              # RectOf(MapGet(fitOut.before, WriteId(pendingWrites[k])))

ToolUseIds(content) ==
    LET uses == ToolUses(content) IN [j \in 1..Len(uses) |-> uses[j].id]
ToolResultIds(content) ==
    LET rs == SelectSeq(content, IsToolResult)
    IN  [j \in 1..Len(rs) |-> rs[j].tool_use_id]
\* roles alternate from the user's prompt on, and each assistant message with
\* tool_use blocks has a next message, from the user, whose tool_result
\* blocks answer those blocks one for one in their order
Answered(msgs) ==
    /\ \A i \in 1..Len(msgs) :
         msgs[i].role = IF i % 2 = 1 THEN "user" ELSE "assistant"
    /\ \A i \in 1..Len(msgs) :
         (msgs[i].role = "assistant" /\ ToolUses(msgs[i].content) # <<>>) =>
            /\ i < Len(msgs)
            /\ msgs[i + 1].role = "user"
            /\ ToolResultIds(msgs[i + 1].content) = ToolUseIds(msgs[i].content)

\* C35: in the conversation a model call sends, roles alternate between user
\* and assistant, and every assistant message with tool_use blocks is
\* followed by one user message holding one tool_result per tool_use block,
\* with the block's id, in the same order
C35_ToolUsesAnswered == pc = "call" => Answered(messages)
\* a conversation about to be sent that holds the must-call-tools nudge, a
\* single tool call answered with the batch-more reminder, and two tool calls
\* of one response answered by two results alone
C35_Witness ==
    /\ pc = "call" /\ nudges = 1 /\ Len(messages) = 7
    /\ messages[3].content = TextContent("must-call-tools")
    /\ Len(ToolUses(messages[4].content)) = 1
    /\ messages[5].content[2] = [type |-> "text", text |-> "batch-more"]
    /\ Len(ToolUses(messages[6].content)) = 2
    /\ Len(messages[7].content) = 2

====
